---- MODULE Spec2Model ----
(***************************************************************************)
(* A model of the blockchain state engine (lib/types/blockchain.rs), the   *)
(* Merkle root (lib/src/util.rs) and the node's connection handler and     *)
(* background tasks (node/src/handler.rs, node/src/util.rs, main.rs).      *)
(*                                                                         *)
(* Four specifications share the operators that model the code:           *)
(*   Spec        the Blockchain API called in any order                    *)
(*   SpecMempool the mempool calls on a chain of one genesis block,        *)
(*               remembering the last two calls and their arguments        *)
(*   SpecBlock   add_block alone, over the full cross product of header    *)
(*               faults, remembering the block that was submitted          *)
(*   SpecNode    the node: startup, connection handlers, the cleanup and   *)
(*               save tasks, interleaved under the BLOCKCHAIN RwLock       *)
(***************************************************************************)
EXTENDS Integers, Sequences, FiniteSets, TLC

VARIABLES
    blockchain,     \* the Blockchain value: [utxos, target, blocks, mempool]
    now,            \* Utc::now(), in seconds
    last,           \* the last API call: [op, arg, res, why, pre]
    last2,          \* the API call before it: [op, arg, res]
    onlyAddBlock,   \* TRUE while every call so far was an add_block returning Ok
    pc,             \* SpecNode: each task's position
    lock,           \* SpecNode: the BLOCKCHAIN RwLock: [writer, readers]
    inbox,          \* SpecNode: messages in flight to each connection handler
    cur,            \* SpecNode: the message (and locals) each task is working on
    sent,           \* SpecNode: messages each task has written to its socket or peers
    results,        \* SpecNode: the log of the handlers' add_block calls
    syncLeft,       \* SpecNode: the startup sync: [chain, from, count, next]
    NODES,          \* SpecNode: the peer table
    file,           \* SpecNode: the blockchain file: [exists, blob]
    wallet          \* SpecWallet: the wallet's Core: [my_keys, utxos, fee_config]

vars == <<blockchain, now, last, last2, onlyAddBlock,
          pc, lock, inbox, cur, sent, results, syncLeft, NODES, file, wallet>>

nodeVars == <<pc, lock, inbox, cur, sent, results, syncLeft, NODES, file>>

-----------------------------------------------------------------------------
(* Bounds of the model *)

MaxBlocks == 2          \* chain length in Spec
MaxMempool == 2         \* mempool length
MaxTicks == 2           \* clock advances
MaxMessages == 1        \* messages a peer writes on one connection
MaxStamp == 2           \* block header timestamps are drawn from 1..MaxStamp
MaxTargetBlocks == 100  \* chain length in SpecTarget: two retarget intervals
MaxTemplateTxs == 22    \* mempool length in SpecTemplate
MaxMinerBlocks == 3     \* chain length in SpecMiner
MaxNonce == 1           \* nonces a miner tries
MaxRebuildBlocks == 3   \* chain length in SpecRebuild
WorkerThreads == 1      \* worker threads of the runtime in SpecPeers: one per core of the host
MaxMerkleTxs == 4       \* transactions hashed in SpecMerkle
MaxWalletUtxos == 2     \* outputs cached for one key in SpecWallet
MaxHandlerMessages == 2 \* messages of the first connection in SpecHandler
MaxRestartBlocks == 51  \* chain length in SpecRestart: one retarget interval and a block
MaxHalvings == 65       \* halvings of the heights in SpecReward
HashBits == 24          \* width at which a digest is read as an unsigned integer

-----------------------------------------------------------------------------
(* Program constants *)

INITIAL_REWARD == 50
HALVING_INTERVAL == 210
IDEAL_BLOCK_TIME == 10
DIFFICULTY_UPDATE_INTERVAL == 50
MAX_MEMPOOL_TRANSACTION_AGE == 600
BLOCK_TRANSACTION_CAP == 20
COIN == 100000000       \* 10u64.pow(8) satoshis

\* 2^n
RECURSIVE Pow2(_)
Pow2(n) == IF n = 0 THEN 1 ELSE 2 * Pow2(n - 1)

\* U256 is read at HashBits bits; MIN_TARGET keeps its shape: the top 16 bits
\* zero, every other bit one.
MIN_TARGET == Pow2(HashBits - 16) - 1

U256Max == Pow2(HashBits) - 1

-----------------------------------------------------------------------------
(* u64 amounts.  5 * 10^9 satoshis does not fit the checker's integers, so  *)
(* an amount n is kept as <<n \div COIN, n % COIN>>.                        *)

Sat(n) == <<n \div COIN, n % COIN>>

Coins(c) == <<c, 0>>

AmtAdd(a, b) == <<a[1] + b[1] + ((a[2] + b[2]) \div COIN), (a[2] + b[2]) % COIN>>

AmtLess(a, b) == a[1] < b[1] \/ (a[1] = b[1] /\ a[2] < b[2])

AmtLeq(a, b) == a = b \/ AmtLess(a, b)

\* a - b for b <= a
AmtSub(a, b) ==
    IF a[2] >= b[2] THEN <<a[1] - b[1], a[2] - b[2]>>
    ELSE <<a[1] - b[1] - 1, a[2] + COIN - b[2]>>

\* a >> 1
AmtHalf(a) == <<a[1] \div 2, (a[2] + (a[1] % 2) * COIN) \div 2>>

RECURSIVE AmtShr(_, _)
AmtShr(a, k) ==
    IF k = 0 THEN a
    ELSE LET half == AmtHalf(a)
         IN  IF half = <<0, 0>> THEN half ELSE AmtShr(half, k - 1)

RECURSIVE AmtSum(_)
AmtSum(s) == IF s = <<>> THEN Sat(0) ELSE AmtAdd(Head(s), AmtSum(Tail(s)))

-----------------------------------------------------------------------------
(* Hashes.  SHA-256 is an external primitive: a digest is kept as its       *)
(* tagged preimage, so two digests are equal exactly when their preimages   *)
(* are, and the zero hash is the digest of nothing.                         *)

ZeroHash == <<"zero">>

HashOutput(output) == <<"out", output>>

HashTx(tx) == <<"tx", tx>>

HashPair(left, right) == <<"pair", left, right>>

HashHeader(header) == <<"hdr", header>>

\* The digest of a header read as an unsigned integer of HashBits bits: a
\* fixed mixing of the nonce and the timestamp, so that grinding the nonce
\* moves the value across any target.
DigestValue(header) ==
    (header.nonce * 1000 + (header.timestamp % Pow2(HashBits)) * 37
        + (IF header.prev_block_hash = ZeroHash THEN 0 ELSE 5)) % Pow2(HashBits)

matches_target(header, target) == DigestValue(header) <= target

\* Signature::sign_output and Signature::verify
SignOutput(hash, key) == [signer |-> key, message |-> hash]

SignatureVerify(signature, hash, pubkey) ==
    signature.message = hash /\ signature.signer = pubkey

-----------------------------------------------------------------------------
(* Merkle root *)

\* PairUp with an unpaired last element left as it is
PairUpKeepsOdd(layer) ==
    [i \in 1..((Len(layer) + 1) \div 2) |->
        IF 2 * i <= Len(layer) THEN HashPair(layer[2 * i - 1], layer[2 * i])
        ELSE layer[2 * i - 1]]

PairUp(layer) ==
    [i \in 1..((Len(layer) + 1) \div 2) |->
        LET left == layer[2 * i - 1]
            right == IF 2 * i <= Len(layer) THEN layer[2 * i] ELSE left
        IN  HashPair(left, right)]

RECURSIVE MerkleFold(_)
MerkleFold(layer) == IF Len(layer) > 1 THEN MerkleFold(PairUp(layer)) ELSE layer[1]

\* MerkleRoot::calculate; layer[0] of an empty list panics, see MerklePanics
MerkleRootCalculate(transactions) ==
    MerkleFold([i \in 1..Len(transactions) |-> HashTx(transactions[i])])

MerklePanics(transactions) == Len(transactions) = 0

-----------------------------------------------------------------------------
(* Sequence helpers *)

SeqRange(s) == {s[i] : i \in DOMAIN s}

RemoveAt(s, idx) == [i \in 1..(Len(s) - 1) |-> IF i < idx THEN s[i] ELSE s[i + 1]]

SetMin(S) == CHOOSE x \in S : \A y \in S : x <= y

InputHashes(tx) == [i \in DOMAIN tx.inputs |-> tx.inputs[i].prev_transaction_output_hash]

OutputValues(tx) == [i \in DOMAIN tx.outputs |-> tx.outputs[i].value]

-----------------------------------------------------------------------------
(* Blockchain (lib/types/blockchain.rs).  utxos maps Hash(output) to        *)
(* [marked, output]; mempool is a sequence of <<timestamp, transaction>>.   *)

\* Blockchain::new
BlockchainNew ==
    [utxos |-> <<>>, target |-> MIN_TARGET, blocks |-> <<>>, mempool |-> <<>>]

block_height(bc) == Len(bc.blocks)

\* self.utxos.entry(hash).and_modify(|(marked, _)| *marked = flag) for each hash
SetMarked(utxos, hashes, flag) ==
    [h \in DOMAIN utxos |->
        IF h \in hashes THEN [marked |-> flag, output |-> utxos[h].output] ELSE utxos[h]]

\* the body of rebuild_utxos' loop for one transaction: remove the inputs,
\* then insert every output unmarked
RebuildTx(utxos, tx) ==
    LET spent == SeqRange(InputHashes(tx))
        made == {HashOutput(tx.outputs[i]) : i \in DOMAIN tx.outputs}
    IN  [h \in (DOMAIN utxos \ spent) \cup made |->
            IF h \in made
            THEN [marked |-> FALSE,
                  output |-> CHOOSE o \in SeqRange(tx.outputs) : HashOutput(o) = h]
            ELSE utxos[h]]

RECURSIVE RebuildTxs(_, _)
RebuildTxs(utxos, txs) ==
    IF txs = <<>> THEN utxos
    ELSE LET next == RebuildTx(utxos, Head(txs))
         IN  \* the comparison has the map computed before the next step
             IF next = <<>> THEN RebuildTxs(<<>>, Tail(txs)) ELSE RebuildTxs(next, Tail(txs))

RECURSIVE RebuildBlocks(_, _)
RebuildBlocks(utxos, blocks) ==
    IF blocks = <<>> THEN utxos
    ELSE LET next == RebuildTxs(utxos, Head(blocks).transactions)
         IN  IF next = <<>> THEN RebuildBlocks(<<>>, Tail(blocks))
             ELSE RebuildBlocks(next, Tail(blocks))

\* rebuild_utxos: replays the blocks over the utxos it already holds
rebuild_utxos(bc) == [bc EXCEPT !.utxos = RebuildBlocks(bc.utxos, bc.blocks)]

\* the entries of a map in the order an iteration meets them, which for a
\* HashMap is some order
RECURSIVE SeqOf(_)
SeqOf(S) ==
    IF S = {} THEN <<>>
    ELSE LET x == CHOOSE y \in S : TRUE IN <<x>> \o SeqOf(S \ {x})

SerializeMap(m) ==
    LET keys == SeqOf(DOMAIN m) IN [i \in DOMAIN keys |-> <<keys[i], m[keys[i]]>>]

\* a map read back entry by entry: a later entry replaces an earlier one of
\* the same key
DeserializeMap(entries) ==
    [k \in {entries[i][1] : i \in DOMAIN entries} |->
        LET at == CHOOSE i \in DOMAIN entries :
                      /\ entries[i][1] = k
                      /\ \A j \in DOMAIN entries : entries[j][1] = k => j <= i
        IN  entries[at][2]]

HasField(blob, name) == \E i \in DOMAIN blob : blob[i][1] = name
Field(blob, name) == blob[CHOOSE i \in DOMAIN blob : blob[i][1] = name][2]

\* a slip: the marks of the utxos not written
SaveUnmarked(bc) ==
    <<<<"utxos", SerializeMap([h \in DOMAIN bc.utxos |-> [bc.utxos[h] EXCEPT !.marked = FALSE]])>>,
      <<"target", bc.target>>,
      <<"blocks", bc.blocks>>>>

\* Saveable for Blockchain, the derived Serialize: the fields by name in
\* the order of the struct, the mempool skipped (skip_serializing)
Save(bc) ==
    <<<<"utxos", SerializeMap(bc.utxos)>>,
      <<"target", bc.target>>,
      <<"blocks", bc.blocks>>>>

\* the derived Deserialize: the fields by name, the mempool empty when the
\* file has none (serde default)
Load(blob) ==
    [utxos |-> DeserializeMap(Field(blob, "utxos")),
     target |-> Field(blob, "target"),
     blocks |-> Field(blob, "blocks"),
     mempool |-> IF HasField(blob, "mempool") THEN Field(blob, "mempool") ELSE <<>>]

\* the width of the u64 the reward is shifted in
U64_BITS == 64

\* (INITIAL_REWARD * 10u64.pow(8)) >> halvings returning a value: a shift by
\* less than the width, or the build without overflow checks, which shifts
\* by the amount modulo the width
RewardAtHeight(block_height_) ==
    AmtShr(Coins(INITIAL_REWARD), (block_height_ \div HALVING_INTERVAL) % U64_BITS)

\* the build with overflow checks panics on a shift by the width or more
RewardPanics(block_height_) == block_height_ \div HALVING_INTERVAL >= U64_BITS

\* what a call at this height can do: <<value>> returned, <<>> panicked
RewardOutcomes(block_height_) ==
    {<<RewardAtHeight(block_height_)>>}
        \cup (IF RewardPanics(block_height_) THEN {<<>>} ELSE {})

\* calculate_block_reward
calculate_block_reward(bc) == RewardAtHeight(block_height(bc))

\* the miner fee the sort key computes: referenced input values minus outputs
MinerFee(utxos, tx) ==
    AmtSub(AmtSum([i \in DOMAIN tx.inputs |->
                      utxos[tx.inputs[i].prev_transaction_output_hash].output.value]),
           AmtSum(OutputValues(tx)))

\* the sort key's unwrap() finds no utxo for an input
FeePanics(utxos, tx) == \E h \in SeqRange(InputHashes(tx)) : h \notin DOMAIN utxos

\* self.mempool.sort_by_key(miner_fee): a stable sort, ascending in the key
RECURSIVE SortByFee(_, _)
SortByFee(utxos, mempool) ==
    IF Len(mempool) <= 1 THEN mempool
    ELSE LET front == SortByFee(utxos, SubSeq(mempool, 1, Len(mempool) - 1))
             e == mempool[Len(mempool)]
             k == Cardinality({i \in DOMAIN front :
                      AmtLeq(MinerFee(utxos, front[i][2]), MinerFee(utxos, e[2]))})
         IN  SubSeq(front, 1, k) \o <<e>> \o SubSeq(front, k + 1, Len(front))

\* every order a sort that panicked part-way may leave the entries in
Reorderings(s) == {[i \in DOMAIN s |-> s[p[i]]] : p \in Permutations(DOMAIN s)}

\* add_to_mempool STEP 2, for the inputs from index i on
RECURSIVE RbfLoop(_, _, _, _)
RbfLoop(utxos, mempool, tx, i) ==
    IF i > Len(tx.inputs) THEN [utxos |-> utxos, mempool |-> mempool]
    ELSE LET h == tx.inputs[i].prev_transaction_output_hash
             found == {k \in DOMAIN mempool :
                          \E j \in DOMAIN mempool[k][2].outputs :
                              HashOutput(mempool[k][2].outputs[j]) = h}
         IN  IF ~utxos[h].marked THEN RbfLoop(utxos, mempool, tx, i + 1)
             ELSE IF found # {}
             THEN LET idx == SetMin(found)
                      old == mempool[idx][2]
                  IN  RbfLoop(SetMarked(utxos, SeqRange(InputHashes(old)), FALSE),
                              RemoveAt(mempool, idx), tx, i + 1)
             ELSE RbfLoop(SetMarked(utxos, {h}, FALSE), mempool, tx, i + 1)

\* add_to_mempool(transaction) at time t: the set of its outcomes [res, bc]
\* (one outcome, except when the sort panics part-way)
add_to_mempool(bc, tx, t) ==
    LET hashes == InputHashes(tx)
        missing == \E i \in DOMAIN hashes : hashes[i] \notin DOMAIN bc.utxos
        duplicate == \E i, j \in DOMAIN hashes : i < j /\ hashes[i] = hashes[j]
        rbf == RbfLoop(bc.utxos, bc.mempool, tx, 1)
        all_inputs == AmtSum([i \in DOMAIN hashes |-> rbf.utxos[hashes[i]].output.value])
        all_outputs == AmtSum(OutputValues(tx))
        marked == SetMarked(rbf.utxos, SeqRange(hashes), TRUE)
        pushed == Append(rbf.mempool, <<t, tx>>)
    IN  IF missing \/ duplicate
        THEN {[res |-> "InvalidTransaction", bc |-> bc]}
        ELSE IF AmtLess(all_inputs, all_outputs)
        THEN {[res |-> "InvalidTransaction",
               bc |-> [bc EXCEPT !.utxos = rbf.utxos, !.mempool = rbf.mempool]]}
        ELSE IF Len(pushed) >= 2 /\ \E k \in DOMAIN pushed : FeePanics(marked, pushed[k][2])
        THEN {[res |-> "Panic", bc |-> [bc EXCEPT !.utxos = marked, !.mempool = m]] :
                 m \in Reorderings(pushed)}
        ELSE {[res |-> "Ok",
               bc |-> [bc EXCEPT !.utxos = marked, !.mempool = SortByFee(marked, pushed)]]}

\* a slip: an entry of exactly the age limit removed as well
cleanup_mempool_inclusive(bc, t) ==
    LET old(e) == t - e[1] >= MAX_MEMPOOL_TRANSACTION_AGE
        kept == SelectSeq(bc.mempool, LAMBDA e : ~old(e))
        utxo_hashes_to_unmark ==
            UNION {SeqRange(InputHashes(bc.mempool[k][2])) :
                      k \in {j \in DOMAIN bc.mempool : old(bc.mempool[j])}}
    IN  [bc EXCEPT !.mempool = kept,
                   !.utxos = SetMarked(bc.utxos, utxo_hashes_to_unmark, FALSE)]

\* cleanup_mempool at time t
cleanup_mempool(bc, t) ==
    LET old(e) == t - e[1] > MAX_MEMPOOL_TRANSACTION_AGE
        kept == SelectSeq(bc.mempool, LAMBDA e : ~old(e))
        utxo_hashes_to_unmark ==
            UNION {SeqRange(InputHashes(bc.mempool[k][2])) :
                      k \in {i \in DOMAIN bc.mempool : old(bc.mempool[i])}}
    IN  [bc EXCEPT !.mempool = kept,
                   !.utxos = SetMarked(bc.utxos, utxo_hashes_to_unmark, FALSE)]

\* current_target x (actual_time / target_time), the digits before the decimal
\* point; quotient and remainder are multiplied apart to keep every
\* intermediate value a machine integer of the checker
ScaleTarget(target, seconds, target_seconds) ==
    target * (seconds \div target_seconds)
        + (target * (seconds % target_seconds)) \div target_seconds

\* the interval measured by a retarget, in seconds
TimeDiffSeconds(bc) ==
    bc.blocks[Len(bc.blocks)].header.timestamp
        - bc.blocks[Len(bc.blocks) - DIFFICULTY_UPDATE_INTERVAL + 1].header.timestamp

Retargets(bc) ==
    bc.blocks # <<>> /\ Len(bc.blocks) % DIFFICULTY_UPDATE_INTERVAL = 0

\* U256::from_str_radix(..).expect("BUG: impossible"): the digits of a product
\* that is negative or does not fit a U256 are no U256
AdjustPanics(bc) ==
    /\ Retargets(bc)
    /\ LET scaled == ScaleTarget(bc.target, TimeDiffSeconds(bc),
                                 IDEAL_BLOCK_TIME * DIFFICULTY_UPDATE_INTERVAL)
       IN  scaled < 0 \/ scaled > U256Max

\* a slip: STEP 5's clamp left out
try_adjust_target_unclamped(bc) ==
    IF ~Retargets(bc) \/ AdjustPanics(bc) THEN bc
    ELSE LET scaled == ScaleTarget(bc.target, TimeDiffSeconds(bc),
                                   IDEAL_BLOCK_TIME * DIFFICULTY_UPDATE_INTERVAL)
         IN  [bc EXCEPT !.target = IF scaled < MIN_TARGET THEN scaled ELSE MIN_TARGET]

\* try_adjust_target; a call that panics leaves the target as it was
try_adjust_target(bc) ==
    IF bc.blocks = <<>> THEN bc
    ELSE IF Len(bc.blocks) % DIFFICULTY_UPDATE_INTERVAL # 0 THEN bc
    ELSE LET start_time == bc.blocks[Len(bc.blocks) - DIFFICULTY_UPDATE_INTERVAL + 1]
                               .header.timestamp
             end_time == bc.blocks[Len(bc.blocks)].header.timestamp
             time_diff_seconds == end_time - start_time
             target_seconds == IDEAL_BLOCK_TIME * DIFFICULTY_UPDATE_INTERVAL
             scaled == ScaleTarget(bc.target, time_diff_seconds, target_seconds)
             clamped == IF scaled < bc.target \div 4 THEN bc.target \div 4
                        ELSE IF scaled > bc.target * 4 THEN bc.target * 4
                        ELSE scaled
         IN  IF scaled < 0 \/ scaled > U256Max THEN bc
             ELSE [bc EXCEPT !.target = IF clamped < MIN_TARGET THEN clamped ELSE MIN_TARGET]

-----------------------------------------------------------------------------
(* Block validation *)

RECURSIVE Concat(_)
Concat(seqs) == IF seqs = <<>> THEN <<>> ELSE Head(seqs) \o Concat(Tail(seqs))

\* block_reward(height) = (INITIAL_REWARD * 10^8) >> (height / HALVING_INTERVAL)
BlockReward(height) == AmtShr(Coins(INITIAL_REWARD), height \div HALVING_INTERVAL)

\* Block::verify_transactions(height, utxos)
verify_transactions(block, height, utxos) ==
    LET txs == block.transactions
        rest == Tail(txs)
        spent == Concat([i \in DOMAIN rest |-> InputHashes(rest[i])])
        missing == \E i \in DOMAIN spent : spent[i] \notin DOMAIN utxos
        collide == \E i, j \in DOMAIN spent : i < j /\ spent[i] = spent[j]
        forged == \E i \in DOMAIN rest : \E j \in DOMAIN rest[i].inputs :
                      LET input == rest[i].inputs[j]
                          h == input.prev_transaction_output_hash
                      IN  ~SignatureVerify(input.signature, h, utxos[h].output.pubkey)
        inValue(tx) == AmtSum([j \in DOMAIN tx.inputs |->
                          utxos[tx.inputs[j].prev_transaction_output_hash].output.value])
        overspend == \E i \in DOMAIN rest :
                         AmtLess(inValue(rest[i]), AmtSum(OutputValues(rest[i])))
        fees == AmtSub(AmtSum([i \in DOMAIN rest |-> inValue(rest[i])]),
                       AmtSum([i \in DOMAIN rest |-> AmtSum(OutputValues(rest[i]))]))
    IN  IF txs = <<>> THEN "InvalidTransaction"
        ELSE IF txs[1].inputs # <<>> THEN "InvalidTransaction"
        ELSE IF missing \/ collide THEN "InvalidTransaction"
        ELSE IF forged \/ overspend THEN "InvalidTransaction"
        ELSE IF AmtSum(OutputValues(txs[1])) # AmtAdd(BlockReward(height), fees)
        THEN "InvalidTransaction"
        ELSE "Ok"

\* a slip: the genesis block held to its proof of work as well
ValidateGenesisWithPow(block) ==
    IF block.header.prev_block_hash # ZeroHash
    THEN [res |-> "InvalidBlock", why |-> "zero hash"]
    ELSE IF ~matches_target(block.header, block.header.target)
    THEN [res |-> "InvalidBlock", why |-> "does not match target"]
    ELSE [res |-> "Ok", why |-> "none"]

\* add_block on an empty chain: the only check
ValidateGenesis(block) ==
    IF block.header.prev_block_hash # ZeroHash
    THEN [res |-> "InvalidBlock", why |-> "zero hash"]
    ELSE [res |-> "Ok", why |-> "none"]

\* a slip: the chain-linkage check left out
PrevHashUnchecked(bc, block) == TRUE

\* add_block's first check on a non-empty chain
PrevHashMatches(bc, block) ==
    block.header.prev_block_hash = HashHeader(bc.blocks[Len(bc.blocks)].header)

\* a slip: the proof of work left out
PowUnchecked(block) == TRUE

\* add_block's second check: the header hash against the header's own target
PowMatches(block) == matches_target(block.header, block.header.target)

\* a slip: the timestamp check left out
TimestampUnchecked(bc, block) == TRUE

\* add_block's fourth check: strictly after the last block
TimestampAfter(bc, block) ==
    block.header.timestamp > bc.blocks[Len(bc.blocks)].header.timestamp

\* a slip: the Merkle root checked before the proof of work
ValidateNextMerkleFirst(bc, block) ==
    IF ~PrevHashMatches(bc, block)
        THEN [res |-> "InvalidBlock", why |-> "prev hash is wrong"]
        ELSE IF MerklePanics(block.transactions)
        THEN [res |-> "Panic", why |-> "merkle root of no transactions"]
        ELSE IF MerkleRootCalculate(block.transactions) # block.header.merkle_root
        THEN [res |-> "InvalidMerkleRoot", why |-> "invalid merkle root"]
        ELSE IF ~PowMatches(block)
        THEN [res |-> "InvalidBlock", why |-> "does not match target"]
        ELSE IF ~TimestampAfter(bc, block)
        THEN [res |-> "InvalidBlock", why |-> "timestamp"]
        ELSE IF verify_transactions(block, block_height(bc), bc.utxos) # "Ok"
        THEN [res |-> "InvalidTransaction", why |-> "verify_transactions"]
        ELSE [res |-> "Ok", why |-> "none"]

\* add_block on a non-empty chain: the checks in the order the code makes them
ValidateNext(bc, block) ==
    IF ~PrevHashMatches(bc, block)
        THEN [res |-> "InvalidBlock", why |-> "prev hash is wrong"]
        ELSE IF ~PowMatches(block)
        THEN [res |-> "InvalidBlock", why |-> "does not match target"]
        ELSE IF MerklePanics(block.transactions)
        THEN [res |-> "Panic", why |-> "merkle root of no transactions"]
        ELSE IF MerkleRootCalculate(block.transactions) # block.header.merkle_root
        THEN [res |-> "InvalidMerkleRoot", why |-> "invalid merkle root"]
        ELSE IF ~TimestampAfter(bc, block)
        THEN [res |-> "InvalidBlock", why |-> "timestamp"]
        ELSE IF verify_transactions(block, block_height(bc), bc.utxos) # "Ok"
        THEN [res |-> "InvalidTransaction", why |-> "verify_transactions"]
        ELSE [res |-> "Ok", why |-> "none"]

\* a slip: the mempool left as it was
AppendKeepMempool(bc, block) ==
    try_adjust_target([bc EXCEPT !.blocks = Append(bc.blocks, block)])

\* the tail of add_block: drop the block's transactions from the mempool,
\* push the block, try_adjust_target
AppendBlock(bc, block) ==
    LET block_transactions == {HashTx(block.transactions[i]) : i \in DOMAIN block.transactions}
        retained == SelectSeq(bc.mempool, LAMBDA e : HashTx(e[2]) \notin block_transactions)
    IN  try_adjust_target([bc EXCEPT !.mempool = retained,
                                     !.blocks = Append(bc.blocks, block)])

\* a slip: the block pushed before it is validated
add_block_pushes_first(bc, block) ==
    LET v == IF bc.blocks = <<>> THEN ValidateGenesis(block) ELSE ValidateNext(bc, block)
        pushed == [bc EXCEPT !.blocks = Append(bc.blocks, block)]
    IN  IF v.res = "Ok" THEN [res |-> v.res, why |-> v.why, bc |-> AppendBlock(bc, block)]
        ELSE [res |-> v.res, why |-> v.why, bc |-> pushed]

\* add_block(block): [res, why, bc]
add_block(bc, block) ==
    LET v == IF bc.blocks = <<>> THEN ValidateGenesis(block) ELSE ValidateNext(bc, block)
        pushed == IF v.res = "Ok" THEN AppendBlock(bc, block) ELSE bc
    IN  IF v.res = "Ok" /\ AdjustPanics(pushed)
        THEN [res |-> "Panic", why |-> "try_adjust_target", bc |-> pushed]
        ELSE [res |-> v.res, why |-> v.why, bc |-> pushed]

-----------------------------------------------------------------------------
(* The transactions and blocks the operations are called with *)

Pay(v, id, to) == [value |-> Sat(v), unique_id |-> id, pubkey |-> to]

Input(hash, key) ==
    [prev_transaction_output_hash |-> hash, signature |-> SignOutput(hash, key)]

Tx(ins, outs) == [inputs |-> ins, outputs |-> outs]

OutG1 == Pay(11, 1, "alice")
OutG2 == Pay(4, 2, "alice")
U1 == HashOutput(OutG1)
U2 == HashOutput(OutG2)

\* a genesis coinbase creating U1 and U2
TxGenesis == Tx(<<>>, <<OutG1, OutG2>>)

TxA == Tx(<<Input(U1, "alice")>>, <<Pay(10, 3, "bob")>>)                     \* fee 1
TxB == Tx(<<Input(U1, "alice")>>, <<Pay(5, 4, "bob")>>)                      \* fee 6
TxC == Tx(<<Input(U1, "alice"), Input(U2, "alice")>>, <<Pay(12, 5, "bob")>>) \* fee 3
\* spends U1 and pays out an output identical to OutG2
TxE == Tx(<<Input(U1, "alice")>>, <<OutG2>>)
\* the same input twice
TxDup == Tx(<<Input(U1, "alice"), Input(U1, "alice")>>, <<Pay(1, 7, "bob")>>)
\* an input that is no utxo
TxMissing == Tx(<<Input(HashOutput(Pay(9, 99, "alice")), "alice")>>, <<Pay(1, 8, "bob")>>)
\* outputs worth more than the inputs
TxOver == Tx(<<Input(U2, "alice")>>, <<Pay(5, 9, "bob")>>)
\* spends U2 alone, within its value
TxF == Tx(<<Input(U2, "alice")>>, <<Pay(3, 12, "bob")>>)                     \* fee 1
\* TxB's payment signed by the wrong key
TxForged == Tx(<<Input(U1, "bob")>>, <<Pay(5, 4, "bob")>>)

TxPool == {TxA, TxB, TxC, TxE, TxF, TxDup, TxMissing, TxOver}

Coinbase(value, id) ==
    Tx(<<>>, <<[value |-> value, unique_id |-> id, pubkey |-> "miner"]>>)

CbReward == Coinbase(Coins(INITIAL_REWARD), 10)
CbRewardFee6 == Coinbase(AmtAdd(Coins(INITIAL_REWARD), Sat(6)), 11)

BlockTxLists == {<<TxGenesis>>, <<CbReward>>, <<CbRewardFee6, TxB>>}

Header(ts, prev, nonce, target, root) ==
    [timestamp |-> ts, prev_block_hash |-> prev, nonce |-> nonce,
     target |-> target, merkle_root |-> root]

Block(header, txs) == [header |-> header, transactions |-> txs]

TipHash(bc) ==
    IF bc.blocks = <<>> THEN ZeroHash ELSE HashHeader(bc.blocks[Len(bc.blocks)].header)

\* blocks offered to add_block in Spec: well formed apart from the timestamp,
\* the previous hash and the transactions
SpecBlocks(bc) ==
    {Block(Header(ts, prev, 0, MIN_TARGET, MerkleRootCalculate(txs)), txs) :
        ts \in 1..MaxStamp, prev \in {ZeroHash, TipHash(bc)}, txs \in BlockTxLists}

-----------------------------------------------------------------------------
(* Spec: the Blockchain API, called in any order.  last keeps the call and  *)
(* its result only; SpecMempool and SpecBlock also keep its argument.       *)

NoCall == [op |-> "none", arg |-> "none", res |-> "none", why |-> "none", pre |-> "none"]

WalletIdle == wallet = "unused"

NodeIdle ==
    /\ pc = "unused"
    /\ lock = "unused"
    /\ inbox = "unused"
    /\ cur = "unused"
    /\ sent = "unused"
    /\ results = "unused"
    /\ syncLeft = "unused"
    /\ NODES = "unused"
    /\ file = "unused"

Init ==
    /\ WalletIdle
    /\ blockchain = BlockchainNew
    /\ now = 0
    /\ last = NoCall
    /\ last2 = NoCall
    /\ onlyAddBlock = TRUE
    /\ NodeIdle

Called(op, res) ==
    /\ last' = [op |-> op, arg |-> "none", res |-> res, why |-> "none", pre |-> "none"]
    /\ onlyAddBlock' = (onlyAddBlock /\ op = "add_block" /\ res = "Ok")
    /\ UNCHANGED last2

AddToMempool(tx) ==
    /\ Len(blockchain.mempool) < MaxMempool
    /\ \E out \in add_to_mempool(blockchain, tx, now) :
        /\ blockchain' = out.bc
        /\ Called("add_to_mempool", out.res)
    /\ UNCHANGED <<now, nodeVars, wallet>>

AddBlock(block) ==
    /\ Len(blockchain.blocks) < MaxBlocks
    /\ LET out == add_block(blockchain, block)
       IN  /\ blockchain' = out.bc
           /\ Called("add_block", out.res)
    /\ UNCHANGED <<now, nodeVars, wallet>>

\* the SubmitTemplate handler's calls under one write lock: add_block, then
\* rebuild_utxos when it returned Ok
SubmitTemplateCalls(block) ==
    /\ Len(blockchain.blocks) < MaxBlocks
    /\ LET out == add_block(blockchain, block)
       IN  /\ blockchain' = IF out.res = "Ok" THEN rebuild_utxos(out.bc) ELSE out.bc
           /\ Called("submit_template", out.res)
    /\ UNCHANGED <<now, nodeVars, wallet>>

RebuildUtxos ==
    /\ blockchain' = rebuild_utxos(blockchain)
    /\ Called("rebuild_utxos", "Ok")
    /\ UNCHANGED <<now, nodeVars, wallet>>

CleanupMempool ==
    /\ blockchain' = cleanup_mempool(blockchain, now)
    /\ Called("cleanup_mempool", "Ok")
    /\ UNCHANGED <<now, nodeVars, wallet>>

\* the clock advances by the mempool's age limit
Tick ==
    /\ now < MaxTicks * MAX_MEMPOOL_TRANSACTION_AGE
    /\ now' = now + MAX_MEMPOOL_TRANSACTION_AGE
    /\ UNCHANGED <<blockchain, last, last2, onlyAddBlock, nodeVars, wallet>>

Next ==
    \/ \E tx \in TxPool : AddToMempool(tx)
    \/ \E block \in SpecBlocks(blockchain) : AddBlock(block)
    \/ \E block \in SpecBlocks(blockchain) : SubmitTemplateCalls(block)
    \/ RebuildUtxos
    \/ CleanupMempool
    \/ Tick

Spec == Init /\ [][Next]_vars

-----------------------------------------------------------------------------
(* SpecMempool: the mempool calls on the chain of one genesis block whose   *)
(* outputs were indexed by rebuild_utxos; last and last2 keep the arguments *)

GenesisBlock ==
    Block(Header(1, ZeroHash, 0, MIN_TARGET, MerkleRootCalculate(<<TxGenesis>>)),
          <<TxGenesis>>)

GenesisChain == rebuild_utxos(add_block(BlockchainNew, GenesisBlock).bc)

InitMempool ==
    /\ WalletIdle
    /\ blockchain = GenesisChain
    /\ now = 0
    /\ last = NoCall
    /\ last2 = NoCall
    /\ onlyAddBlock = FALSE
    /\ NodeIdle

Remember(op, arg, res, why) ==
    /\ last' = [op |-> op, arg |-> arg, res |-> res, why |-> why, pre |-> blockchain]
    /\ last2' = last
    /\ UNCHANGED onlyAddBlock

MpAdd(tx) ==
    /\ Len(blockchain.mempool) < MaxMempool
    /\ \E out \in add_to_mempool(blockchain, tx, now) :
        /\ blockchain' = out.bc
        /\ Remember("add_to_mempool", tx, out.res, "none")
    /\ UNCHANGED <<now, nodeVars, wallet>>

MpCleanup ==
    /\ blockchain' = cleanup_mempool(blockchain, now)
    /\ Remember("cleanup_mempool", now, "Ok", "none")
    /\ UNCHANGED <<now, nodeVars, wallet>>

MpTick ==
    /\ now < MaxTicks * MAX_MEMPOOL_TRANSACTION_AGE
    /\ now' = now + MAX_MEMPOOL_TRANSACTION_AGE
    /\ UNCHANGED <<blockchain, last, last2, onlyAddBlock, nodeVars, wallet>>

\* blocks on the tip offered in SpecMempool: a coinbase alone, or a coinbase
\* and TxB, at the timestamp of the genesis block or after it
MempoolBlocks(bc) ==
    {Block(Header(ts, TipHash(bc), 0, MIN_TARGET, MerkleRootCalculate(txs)), txs) :
        ts \in 1..MaxStamp, txs \in {<<CbReward>>, <<CbRewardFee6, TxB>>}}

MpAddBlock(block) ==
    /\ Len(blockchain.blocks) < MaxBlocks
    /\ LET out == add_block(blockchain, block)
       IN  /\ blockchain' = out.bc
           /\ Remember("add_block", block, out.res, out.why)
    /\ UNCHANGED <<now, nodeVars, wallet>>

MpRebuildUtxos ==
    /\ blockchain' = rebuild_utxos(blockchain)
    /\ Remember("rebuild_utxos", "none", "Ok", "none")
    /\ UNCHANGED <<now, nodeVars, wallet>>

\* the chain written with save and read back with load
MpSaveLoad ==
    /\ blockchain' = Load(Save(blockchain))
    /\ Remember("save_load", "none", "Ok", "none")
    /\ UNCHANGED <<now, nodeVars, wallet>>

NextMempool ==
    \/ MpSaveLoad
    \/ \E tx \in TxPool : MpAdd(tx)
    \/ MpCleanup
    \/ MpTick
    \/ \E block \in MempoolBlocks(blockchain) : MpAddBlock(block)
    \/ MpRebuildUtxos

SpecMempool == InitMempool /\ [][NextMempool]_vars

-----------------------------------------------------------------------------
(* SpecBlock: add_block over every combination of header faults; last keeps *)
(* the block submitted and the chain it was submitted to                    *)

FaultyTxLists == BlockTxLists \cup {<<>>}

RootsFor(txs) ==
    {ZeroHash} \cup (IF txs = <<>> THEN {} ELSE {MerkleRootCalculate(txs)})

PrevHashes(bc) ==
    {ZeroHash, TipHash(bc)} \cup {HashHeader(bc.blocks[i].header) : i \in DOMAIN bc.blocks}

FaultyBlocks(bc) ==
    UNION {{Block(Header(ts, prev, nonce, target, root), txs) :
               ts \in 1..MaxStamp, prev \in PrevHashes(bc), nonce \in {0, 1},
               target \in {MIN_TARGET, U256Max}, root \in RootsFor(txs)} :
           txs \in FaultyTxLists}

InitBlock ==
    /\ WalletIdle
    /\ blockchain = BlockchainNew
    /\ now = 0
    /\ last = NoCall
    /\ last2 = NoCall
    /\ onlyAddBlock = TRUE
    /\ NodeIdle

BkAddBlock(block) ==
    /\ Len(blockchain.blocks) < MaxBlocks
    /\ LET out == add_block(blockchain, block)
       IN  /\ blockchain' = out.bc
           /\ last' = [op |-> "add_block", arg |-> block, res |-> out.res,
                       why |-> out.why, pre |-> blockchain]
           /\ onlyAddBlock' = (onlyAddBlock /\ out.res = "Ok")
    /\ UNCHANGED <<now, last2, nodeVars, wallet>>

BkRebuildUtxos ==
    /\ blockchain' = rebuild_utxos(blockchain)
    /\ last' = [op |-> "rebuild_utxos", arg |-> "none", res |-> "Ok",
                why |-> "none", pre |-> blockchain]
    /\ onlyAddBlock' = FALSE
    /\ UNCHANGED <<now, last2, nodeVars, wallet>>

NextBlock ==
    \/ \E block \in FaultyBlocks(blockchain) : BkAddBlock(block)
    \/ BkRebuildUtxos

SpecBlock == InitBlock /\ [][NextBlock]_vars

-----------------------------------------------------------------------------
(* SpecTarget: a chain grown over whole retarget intervals by add_block,   *)
(* and try_adjust_target called on it as main does after loading a chain   *)

\* seconds between the last two blocks of an interval; with one second
\* between the others the intervals span 49, 250, 500, 750, 1000, 2500 and
\* 32897000 seconds
LastGaps == {1, 202, 452, 702, 952, 2452, 32896952}

TargetStamps(bc) ==
    IF bc.blocks = <<>> THEN {1}
    ELSE LET tip == bc.blocks[Len(bc.blocks)].header.timestamp
         IN  IF (Len(bc.blocks) + 1) % DIFFICULTY_UPDATE_INTERVAL = 0
             THEN {tip + g : g \in LastGaps}
             ELSE {tip + 1}

\* coinbase-only blocks on the tip; the header's target is the block's own,
\* which is what add_block compares the digest with
TargetBlocks(bc) ==
    {Block(Header(ts, TipHash(bc), 0, U256Max, MerkleRootCalculate(<<CbReward>>)),
           <<CbReward>>) : ts \in TargetStamps(bc)}

InitTarget ==
    /\ WalletIdle
    /\ blockchain = BlockchainNew
    /\ now = 0
    /\ last = NoCall
    /\ last2 = NoCall
    /\ onlyAddBlock = TRUE
    /\ NodeIdle

TgAddBlock(block) ==
    /\ Len(blockchain.blocks) < MaxTargetBlocks
    /\ LET out == add_block(blockchain, block)
       IN  /\ blockchain' = out.bc
           /\ last' = [op |-> "add_block", arg |-> block, res |-> out.res,
                       why |-> out.why, pre |-> blockchain]
           /\ onlyAddBlock' = (onlyAddBlock /\ out.res = "Ok")
    /\ UNCHANGED <<now, last2, nodeVars, wallet>>

TgTryAdjustTarget ==
    /\ blockchain' = try_adjust_target(blockchain)
    /\ last' = [op |-> "try_adjust_target", arg |-> "none",
                res |-> IF AdjustPanics(blockchain) THEN "Panic" ELSE "Ok",
                why |-> "none", pre |-> blockchain]
    /\ onlyAddBlock' = FALSE
    /\ UNCHANGED <<now, last2, nodeVars, wallet>>

NextTarget ==
    \/ \E block \in TargetBlocks(blockchain) : TgAddBlock(block)
    \/ TgTryAdjustTarget

SpecTarget == InitTarget /\ [][NextTarget]_vars

-----------------------------------------------------------------------------
(* SpecReward: calculate_block_reward, which reads nothing of the chain    *)
(* but its height, called at heights around every halving                  *)

RewardHeights ==
    {k * HALVING_INTERVAL + d : k \in 0..MaxHalvings, d \in {0, 1, HALVING_INTERVAL - 1}}

InitReward ==
    /\ WalletIdle
    /\ blockchain = BlockchainNew
    /\ now = 0
    /\ last = NoCall
    /\ last2 = NoCall
    /\ onlyAddBlock = TRUE
    /\ NodeIdle

RwCalculateBlockReward(height, out) ==
    /\ last' = [op |-> "calculate_block_reward", arg |-> height, res |-> out,
                why |-> "none", pre |-> "none"]
    /\ UNCHANGED <<blockchain, now, last2, onlyAddBlock, nodeVars, wallet>>

NextReward ==
    \E height \in RewardHeights : \E out \in RewardOutcomes(height) :
        RwCalculateBlockReward(height, out)

SpecReward == InitReward /\ [][NextReward]_vars

-----------------------------------------------------------------------------
(* SpecNode: the node process.  main runs the startup sequence and then     *)
(* accepts connections; every accepted connection is a task running         *)
(* handle_connection; cleanup and save are the two periodic tasks.  A task  *)
(* takes one step per await; the BLOCKCHAIN lock alone orders the tasks.    *)
(* tokio's RwLock queues its waiters; the lock here admits any waiter, a    *)
(* superset of the orders the queue allows.                                 *)

Conns == {"c1", "c2"}
Tasks == Conns \cup {"main", "cleanup", "save"}

Msg(kind, arg) == [kind |-> kind, arg |-> arg]
NoMsg == Msg("none", "none")

\* results: the log of the handlers' add_block calls, and for the message a
\* handler is working on what its sender saw when writing it
NoResults == [log |-> <<>>, pending |-> [c \in Conns |-> [base |-> 0, valid |-> FALSE]]]

\* the seed peer of the startup sync and the chains it may serve
Peer == "peer"

BlockTwo ==
    Block(Header(2, HashHeader(GenesisBlock.header), 0, MIN_TARGET,
                 MerkleRootCalculate(<<CbRewardFee6, TxB>>)),
          <<CbRewardFee6, TxB>>)

PeerChains == {<<>>, <<GenesisBlock>>, <<GenesisBlock, BlockTwo>>}

NoFile == [exists |-> FALSE, blob |-> Save(BlockchainNew)]

\* the RwLock
Unlocked == [writer |-> "none", readers |-> {}]
Holds(t) == lock.writer = t \/ t \in lock.readers
CanRead(lk) == lk.writer = "none"
CanWrite(lk) == lk.writer = "none" /\ lk.readers = {}
ReleaseLock(t) ==
    [writer |-> IF lock.writer = t THEN "none" ELSE lock.writer,
     readers |-> lock.readers \ {t}]

\* blocks a miner or a peer builds on the tip it sees
LastStamp(bc) == IF bc.blocks = <<>> THEN 0 ELSE bc.blocks[Len(bc.blocks)].header.timestamp

TipBlock(bc, ts, txs) ==
    Block(Header(ts, TipHash(bc), 0, MIN_TARGET, MerkleRootCalculate(txs)), txs)

NodeBlocks(bc) ==
    IF bc.blocks = <<>>
    THEN <<TipBlock(bc, 1, <<TxGenesis>>), TipBlock(bc, 2, <<CbReward>>)>>
    ELSE <<TipBlock(bc, LastStamp(bc) + 1, <<CbReward>>),
           TipBlock(bc, LastStamp(bc) + 2, <<CbRewardFee6, TxB>>)>>

\* the messages a peer may write on a connection, as a list
NodeMessages(bc) ==
    [i \in DOMAIN NodeBlocks(bc) |-> Msg("NewBlock", NodeBlocks(bc)[i])]
    \o [i \in DOMAIN NodeBlocks(bc) |-> Msg("SubmitTemplate", NodeBlocks(bc)[i])]
    \o <<Msg("ValidateTemplate", GenesisBlock),
          Msg("NewTransaction", TxA), Msg("NewTransaction", TxMissing),
          Msg("SubmitTransaction", TxB),
          Msg("FetchBlock", 0), Msg("AskDifference", 0), Msg("FetchUTXOs", "alice"),
          Msg("FetchTemplate", "miner"), Msg("DiscoverNodes", "none"),
          Msg("Difference", 1)>>

ReadKinds == {"FetchBlock", "AskDifference", "FetchUTXOs", "ValidateTemplate", "FetchTemplate"}
WriteKinds == {"NewBlock", "NewTransaction", "SubmitTemplate", "SubmitTransaction"}
\* a slip: three of the kinds let through
RoleMismatchKindsShort == {"UTXOs", "Template"}

RoleMismatchKinds == {"UTXOs", "Template", "Difference", "TemplateValidity", "NodeList"}

InitNode ==
    /\ WalletIdle
    /\ blockchain = BlockchainNew
    /\ now = 0
    /\ last = NoCall
    /\ last2 = NoCall
    /\ onlyAddBlock = FALSE
    /\ lock = Unlocked
    /\ NODES = {}
    /\ inbox = [c \in Conns |-> [queue |-> <<>>, left |-> MaxMessages]]
    /\ sent = [t \in Tasks |-> <<>>]
    /\ results = NoResults
    /\ \/ /\ file = [exists |-> TRUE, blob |-> Save(GenesisChain)]
          /\ pc = [t \in Tasks |-> IF t = "main" THEN "load_file" ELSE "unspawned"]
          /\ cur = [t \in Tasks |-> NoMsg]
          /\ syncLeft = [chain |-> <<>>, from |-> "", count |-> 0, next |-> 0]
       \/ /\ file = NoFile
          /\ pc = [t \in Tasks |-> IF t = "main" THEN "populate" ELSE "unspawned"]
          /\ \E seeds \in {{}, {Peer}}, chain \in PeerChains :
                /\ seeds = {} => chain = <<>>
                /\ cur = [t \in Tasks |-> IF t = "main" THEN Msg("nodes", seeds) ELSE NoMsg]
                /\ syncLeft = [chain |-> chain, from |-> "", count |-> 0, next |-> 0]

Quiet == UNCHANGED <<now, last, last2, onlyAddBlock, wallet>>

----
(* main: load_blockchain, or populate_connections, find_longest_chain_node, *)
(* download_blockchain, rebuild_utxos, try_adjust_target; then the listener *)

\* load_blockchain up to its lock().write().await
LoadFile ==
    /\ pc["main"] = "load_file"
    /\ cur' = [cur EXCEPT !["main"] = Msg("load", Load(file.blob))]
    /\ pc' = [pc EXCEPT !["main"] = "write"]
    /\ UNCHANGED <<blockchain, lock, NODES, inbox, sent, results, syncLeft, file>>
    /\ Quiet

\* populate_connections: the peer lists no further nodes
PopulateConnections ==
    /\ pc["main"] = "populate"
    /\ NODES' = NODES \cup cur["main"].arg
    /\ sent' = [sent EXCEPT !["main"] =
                   IF cur["main"].arg = {} THEN @
                   ELSE Append(@, [to |-> cur["main"].arg, msg |-> Msg("DiscoverNodes", "none"), failed |-> {}])]
    /\ pc' = [pc EXCEPT !["main"] = IF cur["main"].arg = {} THEN "listen" ELSE "find_longest"]
    /\ UNCHANGED <<blockchain, lock, inbox, cur, results, syncLeft, file>>
    /\ Quiet

\* find_longest_chain_node: the name stays empty unless a count is above 0
FindLongestChainNode ==
    /\ pc["main"] = "find_longest"
    /\ LET count == Len(syncLeft.chain)
       IN  syncLeft' = [syncLeft EXCEPT !.from = IF count > 0 THEN Peer ELSE "",
                                        !.count = count, !.next = 0]
    /\ sent' = [sent EXCEPT !["main"] = Append(@, [to |-> NODES, msg |-> Msg("AskDifference", 0), failed |-> {}])]
    /\ pc' = [pc EXCEPT !["main"] = "download"]
    /\ UNCHANGED <<blockchain, lock, NODES, inbox, cur, results, file>>
    /\ Quiet

\* download_blockchain: get_mut(node).unwrap(), then one FetchBlock round
\* trip per turn of the loop
DownloadBlockchain ==
    /\ pc["main"] = "download"
    /\ IF syncLeft.from \notin NODES
       THEN /\ pc' = [pc EXCEPT !["main"] = "panicked"]
            /\ UNCHANGED <<cur, sent, syncLeft>>
       ELSE IF syncLeft.next < syncLeft.count
       THEN /\ sent' = [sent EXCEPT !["main"] =
                           Append(@, [to |-> {syncLeft.from}, msg |-> Msg("FetchBlock", syncLeft.next), failed |-> {}])]
            /\ cur' = [cur EXCEPT !["main"] = Msg("sync_add", syncLeft.chain[syncLeft.next + 1])]
            /\ syncLeft' = [syncLeft EXCEPT !.next = @ + 1]
            /\ pc' = [pc EXCEPT !["main"] = "write"]
       ELSE /\ cur' = [cur EXCEPT !["main"] = Msg("rebuild", "none")]
            /\ pc' = [pc EXCEPT !["main"] = "write"]
            /\ UNCHANGED <<sent, syncLeft>>
    /\ UNCHANGED <<blockchain, lock, NODES, inbox, results, file>>
    /\ Quiet

\* what main does under the write lock
MainWriting ==
    /\ pc["main"] = "writing"
    /\ lock' = ReleaseLock("main")
    /\ CASE cur["main"].kind = "load" ->
              /\ blockchain' = try_adjust_target(rebuild_utxos(cur["main"].arg))
              /\ pc' = [pc EXCEPT !["main"] = "listen"]
              /\ UNCHANGED cur
         [] cur["main"].kind = "sync_add" ->
              LET out == add_block(blockchain, cur["main"].arg)
              IN  /\ blockchain' = out.bc
                  /\ pc' = [pc EXCEPT !["main"] = IF out.res = "Ok" THEN "download"
                                                  ELSE IF out.res = "Panic" THEN "panicked"
                                                  ELSE "exited"]
                  /\ UNCHANGED cur
         [] cur["main"].kind = "rebuild" ->
              /\ blockchain' = rebuild_utxos(blockchain)
              /\ cur' = [cur EXCEPT !["main"] = Msg("adjust", "none")]
              /\ pc' = [pc EXCEPT !["main"] = "write"]
         [] cur["main"].kind = "adjust" ->
              /\ blockchain' = try_adjust_target(blockchain)
              /\ pc' = [pc EXCEPT !["main"] = "listen"]
              /\ UNCHANGED cur
    /\ UNCHANGED <<NODES, inbox, sent, results, syncLeft, file>>
    /\ Quiet

\* TcpListener::bind, then the two tokio::spawn calls
Listen ==
    /\ pc["main"] = "listen"
    /\ pc' = [pc EXCEPT !["main"] = "accept", !["cleanup"] = "tick", !["save"] = "tick"]
    /\ UNCHANGED <<blockchain, lock, NODES, inbox, cur, sent, results, syncLeft, file>>
    /\ Quiet

\* listener.accept() and tokio::spawn(handle_connection(socket))
Accept(c) ==
    /\ pc["main"] = "accept"
    /\ pc[c] = "unspawned"
    /\ pc' = [pc EXCEPT ![c] = "receive"]
    /\ UNCHANGED <<blockchain, lock, NODES, inbox, cur, sent, results, syncLeft, file>>
    /\ Quiet

----
(* the peers of the accepted connections *)

Open(c) == pc[c] \notin {"unspawned", "closed", "panicked"}

\* a peer writes a message; it travels with the length of the chain its
\* sender saw and, for a block, whether add_block would take it as that
\* chain stands
PeerWrites(c, m) ==
    /\ Open(c)
    /\ inbox[c].left > 0
    /\ LET valid == IF m.kind \in {"NewBlock", "SubmitTemplate"}
                    THEN add_block(blockchain, m.arg).res = "Ok" ELSE FALSE
           e == [msg |-> m, base |-> Len(blockchain.blocks), valid |-> valid]
       IN  inbox' = [inbox EXCEPT ![c] = [queue |-> Append(@.queue, e), left |-> @.left - 1]]
    /\ UNCHANGED <<blockchain, pc, lock, NODES, cur, sent, results, syncLeft, file>>
    /\ Quiet

\* the peer disconnects: receive_async returns Err and the handler returns
PeerCloses(c) ==
    /\ pc[c] = "receive"
    /\ inbox[c].queue = <<>>
    /\ pc' = [pc EXCEPT ![c] = "closed"]
    /\ UNCHANGED <<blockchain, lock, NODES, inbox, cur, sent, results, syncLeft, file>>
    /\ Quiet

----
(* handle_connection *)

\* Message::receive_async and the match on the message
Receive(c) ==
    /\ pc[c] = "receive"
    /\ inbox[c].queue # <<>>
    /\ LET e == Head(inbox[c].queue)
           m == e.msg
       IN  /\ inbox' = [inbox EXCEPT ![c].queue = Tail(@)]
           /\ results' = [results EXCEPT !.pending[c] = [base |-> e.base, valid |-> e.valid]]
           /\ cur' = [cur EXCEPT ![c] = IF m.kind = "DiscoverNodes" THEN Msg("NodeList", NODES) ELSE m]
           /\ pc' = [pc EXCEPT ![c] =
                        IF m.kind \in RoleMismatchKinds THEN "closed"
                        ELSE IF m.kind \in ReadKinds THEN "read"
                        ELSE IF m.kind \in WriteKinds THEN "write"
                        ELSE "send"]
    /\ UNCHANGED <<blockchain, lock, NODES, sent, syncLeft, file>>
    /\ Quiet

\* BLOCKCHAIN.read().await returns
AcquireRead(c) ==
    /\ pc[c] = "read"
    /\ CanRead(lock)
    /\ lock' = [lock EXCEPT !.readers = @ \cup {c}]
    /\ pc' = [pc EXCEPT ![c] = "reading"]
    /\ UNCHANGED <<blockchain, NODES, inbox, cur, sent, results, syncLeft, file>>
    /\ Quiet

\* BLOCKCHAIN.write().await returns
AcquireWrite(t) ==
    /\ pc[t] = "write"
    /\ CanWrite(lock)
    /\ lock' = [lock EXCEPT !.writer = t]
    /\ pc' = [pc EXCEPT ![t] = "writing"]
    /\ UNCHANGED <<blockchain, NODES, inbox, cur, sent, results, syncLeft, file>>
    /\ Quiet

\* the first BLOCK_TRANSACTION_CAP transactions of the mempool
TakeMempool(bc) ==
    LET n == IF Len(bc.mempool) < BLOCK_TRANSACTION_CAP THEN Len(bc.mempool)
             ELSE BLOCK_TRANSACTION_CAP
    IN  [i \in 1..n |-> bc.mempool[i][2]]

\* a slip: every template answered valid
TemplateAlwaysValid(bc, block_template) == TRUE

\* the status of ValidateTemplate
TemplateValidityOf(bc, block_template) ==
    block_template.header.prev_block_hash = TipHash(bc)

\* the block of a read handler under the read lock: the reply, or for
\* FetchTemplate the snapshot the template is built from
ReadReply(bc, m) ==
    CASE m.kind = "FetchBlock" ->
           IF m.arg < Len(bc.blocks) THEN Msg("NewBlock", bc.blocks[m.arg + 1])
           ELSE Msg("return", "none")
      [] m.kind = "AskDifference" -> Msg("Difference", block_height(bc) - m.arg)
      [] m.kind = "FetchUTXOs" ->
           Msg("UTXOs", {<<bc.utxos[h].output, bc.utxos[h].marked>> :
                            h \in {k \in DOMAIN bc.utxos : bc.utxos[k].output.pubkey = m.arg}})
      [] m.kind = "ValidateTemplate" ->
           Msg("TemplateValidity", TemplateValidityOf(bc, m.arg))
      [] m.kind = "FetchTemplate" ->
           Msg("build", [pubkey |-> m.arg, mempool_txs |-> TakeMempool(bc),
                         prev_block_hash |-> TipHash(bc), target |-> bc.target,
                         utxos |-> bc.utxos, reward |-> calculate_block_reward(bc),
                         timestamp |-> LastStamp(bc) + 1])

Reading(c) ==
    /\ pc[c] = "reading"
    /\ lock' = ReleaseLock(c)
    /\ LET reply == ReadReply(blockchain, cur[c])
       IN  /\ cur' = [cur EXCEPT ![c] = reply]
           /\ pc' = [pc EXCEPT ![c] = IF reply.kind = "return" THEN "closed"
                                      ELSE IF reply.kind = "build" THEN "build"
                                      ELSE "send"]
    /\ UNCHANGED <<blockchain, NODES, inbox, sent, results, syncLeft, file>>
    /\ Quiet

\* Block::calculate_miner_fees over the transactions after the coinbase
calculate_miner_fees(txs, utxos) ==
    LET rest == SubSeq(txs, 2, Len(txs))
        ins == Concat([i \in DOMAIN rest |-> InputHashes(rest[i])])
        outs == Concat([i \in DOMAIN rest |->
                           [j \in DOMAIN rest[i].outputs |-> HashOutput(rest[i].outputs[j])]])
        repeated(s) == \E i, j \in DOMAIN s : i < j /\ s[i] = s[j]
    IN  IF \/ \E i \in DOMAIN ins : ins[i] \notin DOMAIN utxos
           \/ repeated(ins)
           \/ repeated(outs)
        THEN [res |-> "InvalidTransaction", fees |-> Sat(0)]
        ELSE [res |-> "Ok",
              fees |-> AmtSub(AmtSum([i \in DOMAIN ins |-> utxos[ins[i]].output.value]),
                              AmtSum(Concat([i \in DOMAIN rest |-> OutputValues(rest[i])])))]

\* the template of FetchTemplate, built from the snapshot s with the lock released
BuildTemplate(s, fees) ==
    LET coinbase == Tx(<<>>, <<[value |-> AmtAdd(s.reward, fees), unique_id |-> 20,
                                pubkey |-> s.pubkey]>>)
        transactions == <<coinbase>> \o s.mempool_txs
    IN  Block(Header(s.timestamp, s.prev_block_hash, 0, s.target,
                     MerkleRootCalculate(transactions)),
              transactions)

\* FetchTemplate after the read lock is released: the template for the
\* snapshot s, or the handler's return when the fees cannot be computed
TemplateOf(s) ==
    LET draft == <<Tx(<<>>, <<[value |-> Sat(0), unique_id |-> 20, pubkey |-> s.pubkey]>>)>>
                     \o s.mempool_txs
        fees == calculate_miner_fees(draft, s.utxos)
    IN  IF fees.res # "Ok" THEN Msg("return", "none")
        ELSE Msg("Template", BuildTemplate(s, fees.fees))

Build(c) ==
    /\ pc[c] = "build"
    /\ LET reply == TemplateOf(cur[c].arg)
       IN  IF reply.kind = "return"
           THEN /\ pc' = [pc EXCEPT ![c] = "closed"]
                /\ UNCHANGED cur
           ELSE /\ cur' = [cur EXCEPT ![c] = reply]
                /\ pc' = [pc EXCEPT ![c] = "send"]
    /\ UNCHANGED <<blockchain, lock, NODES, inbox, sent, results, syncLeft, file>>
    /\ Quiet

\* a write handler under the write lock: [res, why, bc]
WriteOutcomes(bc, m, t) ==
    CASE m.kind = "NewBlock" -> {add_block(bc, m.arg)}
      [] m.kind = "SubmitTemplate" ->
           LET out == add_block(bc, m.arg)
           IN  {[out EXCEPT !.bc = IF out.res = "Ok" THEN rebuild_utxos(out.bc) ELSE out.bc]}
      [] m.kind \in {"NewTransaction", "SubmitTransaction"} ->
           {[res |-> out.res, why |-> "none", bc |-> out.bc] : out \in add_to_mempool(bc, m.arg, t)}

\* a slip: a rejection that leaves the connection open
AfterWriteKeepsOpen(kind, res) ==
    IF res = "Panic" THEN "panicked"
    ELSE IF kind = "NewBlock" \/ res # "Ok" THEN "receive"
    ELSE IF kind = "NewTransaction" THEN "receive"
    ELSE "broadcast"

\* where the handler goes after the write lock is dropped
AfterWrite(kind, res) ==
    IF res = "Panic" THEN "panicked"
    ELSE IF kind = "NewBlock" THEN "receive"
    ELSE IF res # "Ok" THEN "closed"
    ELSE IF kind = "NewTransaction" THEN "receive"
    ELSE "broadcast"

Writing(c) ==
    /\ pc[c] = "writing"
    /\ lock' = ReleaseLock(c)
    /\ \E out \in WriteOutcomes(blockchain, cur[c], now) :
        /\ blockchain' = out.bc
        /\ pc' = [pc EXCEPT ![c] = AfterWrite(cur[c].kind, out.res)]
        /\ results' = [results EXCEPT !.log =
                          IF cur[c].kind \in {"NewBlock", "SubmitTemplate"}
                          THEN Append(@, [conn |-> c, kind |-> cur[c].kind, block |-> cur[c].arg,
                                          base |-> results.pending[c].base,
                                          valid |-> results.pending[c].valid,
                                          pre |-> Len(blockchain.blocks),
                                          post |-> Len(out.bc.blocks),
                                          res |-> out.res, why |-> out.why])
                          ELSE @]
        /\ cur' = [cur EXCEPT ![c] =
                      IF cur[c].kind = "SubmitTemplate" THEN Msg("NewBlock", cur[c].arg) ELSE @]
    /\ UNCHANGED <<NODES, inbox, sent, syncLeft, file>>
    /\ Quiet

\* message.send_async(&mut socket)
Send(c) ==
    /\ pc[c] = "send"
    /\ sent' = [sent EXCEPT ![c] = Append(@, [to |-> {c}, msg |-> cur[c], failed |-> {}])]
    /\ pc' = [pc EXCEPT ![c] = "receive"]
    /\ UNCHANGED <<blockchain, lock, NODES, inbox, cur, results, syncLeft, file>>
    /\ Quiet

\* a slip: the loop left at a failed send
BroadcastUntilFailure(nodes, failed) == IF failed = {} THEN nodes ELSE failed

\* the peers the loop of a broadcast sends to, given the snapshot of the peer
\* table and the peers to which the send fails: a failed send is logged and
\* the loop goes on
BroadcastTargets(nodes, failed) == nodes

\* the loop over the snapshot of the peer table sending the block or the
\* transaction on; the sends to any of the peers may fail
Broadcast(c) ==
    /\ pc[c] = "broadcast"
    /\ \E failed \in SUBSET NODES :
           sent' = [sent EXCEPT ![c] =
                       IF NODES = {} THEN @
                       ELSE Append(@, [to |-> BroadcastTargets(NODES, failed), msg |-> cur[c],
                                       failed |-> failed])]
    /\ pc' = [pc EXCEPT ![c] = "receive"]
    /\ UNCHANGED <<blockchain, lock, NODES, inbox, cur, results, syncLeft, file>>
    /\ Quiet

----
(* the periodic tasks *)

\* interval.tick().await returns in cleanup
CleanupTick ==
    /\ pc["cleanup"] = "tick"
    /\ pc' = [pc EXCEPT !["cleanup"] = "write"]
    /\ UNCHANGED <<blockchain, lock, NODES, inbox, cur, sent, results, syncLeft, file>>
    /\ Quiet

CleanupWriting ==
    /\ pc["cleanup"] = "writing"
    /\ blockchain' = cleanup_mempool(blockchain, now)
    /\ lock' = ReleaseLock("cleanup")
    /\ pc' = [pc EXCEPT !["cleanup"] = "tick"]
    /\ UNCHANGED <<NODES, inbox, cur, sent, results, syncLeft, file>>
    /\ Quiet

\* interval.tick().await returns in save
SaveTick ==
    /\ pc["save"] = "tick"
    /\ pc' = [pc EXCEPT !["save"] = "read"]
    /\ UNCHANGED <<blockchain, lock, NODES, inbox, cur, sent, results, syncLeft, file>>
    /\ Quiet

\* BLOCKCHAIN.read().await returns in save; the next statement writes the file
SaveAcquire ==
    /\ pc["save"] = "read"
    /\ CanRead(lock)
    /\ lock' = [lock EXCEPT !.readers = @ \cup {"save"}]
    /\ pc' = [pc EXCEPT !["save"] = "save_to_file"]
    /\ UNCHANGED <<blockchain, NODES, inbox, cur, sent, results, syncLeft, file>>
    /\ Quiet

\* blockchain.save_to_file(name) through the read guard, dropped at the end
\* of the loop body
SaveToFile ==
    /\ pc["save"] = "save_to_file"
    /\ lock' = ReleaseLock("save")
    /\ \/ /\ file' = [exists |-> TRUE, blob |-> Save(blockchain)]
          /\ pc' = [pc EXCEPT !["save"] = "tick"]
       \/ \* save_to_file returns Err and unwrap() panics
          /\ pc' = [pc EXCEPT !["save"] = "panicked"]
          /\ UNCHANGED file
    /\ UNCHANGED <<blockchain, NODES, inbox, cur, sent, results, syncLeft>>
    /\ Quiet

NextNode ==
    \/ LoadFile
    \/ PopulateConnections
    \/ FindLongestChainNode
    \/ DownloadBlockchain
    \/ AcquireWrite("main")
    \/ MainWriting
    \/ Listen
    \/ \E c \in Conns : Accept(c)
    \/ \E c \in Conns : \E i \in DOMAIN NodeMessages(blockchain) :
           PeerWrites(c, NodeMessages(blockchain)[i])
    \/ \E c \in Conns : PeerCloses(c)
    \/ \E c \in Conns : Receive(c)
    \/ \E c \in Conns : AcquireRead(c)
    \/ \E c \in Conns : AcquireWrite(c)
    \/ \E c \in Conns : Reading(c)
    \/ \E c \in Conns : Build(c)
    \/ \E c \in Conns : Writing(c)
    \/ \E c \in Conns : Send(c)
    \/ \E c \in Conns : Broadcast(c)
    \/ CleanupTick
    \/ AcquireWrite("cleanup")
    \/ CleanupWriting
    \/ SaveTick
    \/ SaveAcquire
    \/ SaveToFile

SpecNode == InitNode /\ [][NextNode]_vars

-----------------------------------------------------------------------------
(* SpecRestart: a chain grown by accepted blocks over a retarget interval, *)
(* written to the chain file by save and read back by load_blockchain at   *)
(* the next start of the node                                              *)

\* seconds between the last two blocks of the interval: with one second
\* between the others the interval spans 250 or 500 seconds
RestartGaps == {202, 452}

RestartBlocks(bc) ==
    LET tip == LastStamp(bc)
        stamps == IF (Len(bc.blocks) + 1) % DIFFICULTY_UPDATE_INTERVAL = 0
                  THEN {tip + g : g \in RestartGaps}
                  ELSE {tip + 1}
    IN  {Block(Header(ts, TipHash(bc), 0, U256Max, MerkleRootCalculate(<<CbReward>>)),
               <<CbReward>>) : ts \in stamps}

InitRestart ==
    /\ WalletIdle
    /\ blockchain = BlockchainNew
    /\ now = 0
    /\ last = NoCall
    /\ last2 = NoCall
    /\ onlyAddBlock = TRUE
    /\ pc = [t \in Tasks |-> "unspawned"]
    /\ lock = Unlocked
    /\ inbox = [c \in Conns |-> [queue |-> <<>>, left |-> 0]]
    /\ cur = [t \in Tasks |-> NoMsg]
    /\ sent = [t \in Tasks |-> <<>>]
    /\ results = NoResults
    /\ syncLeft = [chain |-> <<>>, from |-> "", count |-> 0, next |-> 0]
    /\ NODES = {}
    /\ file = NoFile

RestartQuiet == UNCHANGED <<now, last2, onlyAddBlock, pc, lock, inbox, cur, sent, results,
                            syncLeft, NODES, wallet>>

\* a SubmitTemplate accepted: add_block, then rebuild_utxos
RsSubmitTemplate(block) ==
    /\ Len(blockchain.blocks) < MaxRestartBlocks
    /\ LET out == add_block(blockchain, block)
       IN  /\ blockchain' = IF out.res = "Ok" THEN rebuild_utxos(out.bc) ELSE out.bc
           /\ last' = [op |-> "add_block", arg |-> block, res |-> out.res,
                       why |-> out.why, pre |-> blockchain]
    /\ UNCHANGED file
    /\ RestartQuiet

\* save: the chain written to the file
RsSave ==
    /\ file' = [exists |-> TRUE, blob |-> Save(blockchain)]
    /\ last' = [op |-> "save", arg |-> "none", res |-> "Ok", why |-> "none",
                pre |-> blockchain]
    /\ UNCHANGED blockchain
    /\ RestartQuiet

\* the node started again with the file present: load_blockchain
RsLoadBlockchain ==
    /\ file.exists
    /\ LET new_blockchain == Load(file.blob)
       IN  /\ blockchain' = try_adjust_target(rebuild_utxos(new_blockchain))
           /\ last' = [op |-> "load_blockchain", arg |-> "none",
                       res |-> IF AdjustPanics(new_blockchain) THEN "Panic" ELSE "Ok",
                       why |-> "none", pre |-> new_blockchain]
    /\ UNCHANGED file
    /\ RestartQuiet

NextRestart ==
    \/ \E block \in RestartBlocks(blockchain) : RsSubmitTemplate(block)
    \/ RsSave
    \/ RsLoadBlockchain

SpecRestart == InitRestart /\ [][NextRestart]_vars

-----------------------------------------------------------------------------
(* SpecHandler: two accepted connections of a node that holds the genesis  *)
(* chain and knows two peers; the first connection carries up to           *)
(* MaxHandlerMessages messages, the second one message                     *)

Peer2 == "peer2"

\* the messages written on the connections: for every writing kind one the
\* node accepts and one it rejects, a template to validate, and the five
\* kinds meant for wallets and miners
HandlerMessages(bc) ==
    <<Msg("NewBlock", TipBlock(bc, LastStamp(bc) + 1, <<CbReward>>)),
      Msg("NewBlock", GenesisBlock),
      Msg("SubmitTemplate", TipBlock(bc, LastStamp(bc) + 1, <<CbRewardFee6, TxB>>)),
      Msg("SubmitTemplate", GenesisBlock),
      Msg("NewTransaction", TxA), Msg("NewTransaction", TxMissing),
      Msg("SubmitTransaction", TxC), Msg("SubmitTransaction", TxOver),
      Msg("ValidateTemplate", TipBlock(bc, LastStamp(bc) + 1, <<CbReward>>)),
      Msg("UTXOs", {}), Msg("Template", GenesisBlock), Msg("Difference", 1),
      Msg("TemplateValidity", TRUE), Msg("NodeList", {})>>

InitHandler ==
    /\ WalletIdle
    /\ blockchain \in {BlockchainNew, GenesisChain}
    /\ now = 0
    /\ last = NoCall
    /\ last2 = NoCall
    /\ onlyAddBlock = FALSE
    /\ lock = Unlocked
    /\ NODES = {Peer, Peer2}
    /\ inbox = [c \in Conns |->
                  [queue |-> <<>>, left |-> IF c = "c1" THEN MaxHandlerMessages ELSE 1]]
    /\ sent = [t \in Tasks |-> <<>>]
    /\ results = NoResults
    /\ file = NoFile
    /\ pc = [t \in Tasks |-> IF t = "main" THEN "accept"
                              ELSE IF t \in Conns THEN "receive" ELSE "unspawned"]
    /\ cur = [t \in Tasks |-> NoMsg]
    /\ syncLeft = [chain |-> <<>>, from |-> "", count |-> 0, next |-> 0]

NextHandler ==
    \/ \E c \in Conns : \E i \in DOMAIN HandlerMessages(blockchain) :
           PeerWrites(c, HandlerMessages(blockchain)[i])
    \/ \E c \in Conns : PeerCloses(c)
    \/ \E c \in Conns : Receive(c)
    \/ \E c \in Conns : AcquireRead(c)
    \/ \E c \in Conns : Reading(c)
    \/ \E c \in Conns : AcquireWrite(c)
    \/ \E c \in Conns : Writing(c)
    \/ \E c \in Conns : Send(c)
    \/ \E c \in Conns : Broadcast(c)

SpecHandler == InitHandler /\ [][NextHandler]_vars

-----------------------------------------------------------------------------
(* SpecTemplate: a mempool filled past BLOCK_TRANSACTION_CAP, one          *)
(* transaction at a time, and FetchTemplate answered for it                *)

\* a genesis block with MaxTemplateTxs outputs of 100 satoshis
TemplateOutput(i) == Pay(100, 100 + i, "alice")

TemplateGenesisBlock ==
    LET txs == <<Tx(<<>>, [i \in 1..MaxTemplateTxs |-> TemplateOutput(i)])>>
    IN  Block(Header(1, ZeroHash, 0, MIN_TARGET, MerkleRootCalculate(txs)), txs)

TemplateChain == rebuild_utxos(add_block(BlockchainNew, TemplateGenesisBlock).bc)

\* the transaction spending the i-th output and leaving the fee
TemplateTx(i, fee) ==
    Tx(<<Input(HashOutput(TemplateOutput(i)), "alice")>>, <<Pay(100 - fee, 200 + i, "bob")>>)

\* the fees offered: 1 by the transactions up to the cap, 1 to 3 by those
\* from the cap on
TemplateFees(i) == IF i < BLOCK_TRANSACTION_CAP THEN {1} ELSE {1, 2, 3}

InitTemplate ==
    /\ WalletIdle
    /\ blockchain = TemplateChain
    /\ now = 0
    /\ last = NoCall
    /\ last2 = NoCall
    /\ onlyAddBlock = FALSE
    /\ NodeIdle

TpAddToMempool(tx) ==
    /\ \E out \in add_to_mempool(blockchain, tx, now) :
           /\ blockchain' = out.bc
           /\ last' = [op |-> "add_to_mempool", arg |-> tx, res |-> Msg(out.res, "none"),
                       why |-> "none", pre |-> "none"]
    /\ UNCHANGED <<now, last2, onlyAddBlock, nodeVars, wallet>>

\* the FetchTemplate handler: the snapshot under the read lock, the template
TpFetchTemplate(pubkey) ==
    /\ last' = [op |-> "FetchTemplate", arg |-> pubkey,
                res |-> TemplateOf(ReadReply(blockchain, Msg("FetchTemplate", pubkey)).arg),
                why |-> "none", pre |-> "none"]
    /\ UNCHANGED <<blockchain, now, last2, onlyAddBlock, nodeVars, wallet>>

NextTemplate ==
    \/ \E i \in 1..MaxTemplateTxs : \E fee \in TemplateFees(i) :
           /\ i = Len(blockchain.mempool) + 1
           /\ TpAddToMempool(TemplateTx(i, fee))
    \/ \E pubkey \in {"miner", "alice"} : TpFetchTemplate(pubkey)

SpecTemplate == InitTemplate /\ [][NextTemplate]_vars

-----------------------------------------------------------------------------
(* SpecWallet: the wallet's Core: the cache that fetch_utxos fills, and    *)
(* create_transaction on it                                                *)

\* a u64 at its full width, as four limbs of 16 bits, the highest first
LIMB == 65536

U64(n) == <<0, 0, 0, n>>

U64_MAX == <<LIMB - 1, LIMB - 1, LIMB - 1, LIMB - 1>>

\* a + b on u64: the sum modulo 2^64, and whether it passed 2^64
U64Add(a, b) ==
    LET s4 == a[4] + b[4]
        s3 == a[3] + b[3] + (s4 \div LIMB)
        s2 == a[2] + b[2] + (s3 \div LIMB)
        s1 == a[1] + b[1] + (s2 \div LIMB)
    IN  [value |-> <<s1 % LIMB, s2 % LIMB, s3 % LIMB, s4 % LIMB>>, overflow |-> s1 >= LIMB]

U64Less(a, b) ==
    \E i \in 1..4 : a[i] < b[i] /\ \A j \in 1..(i - 1) : a[j] = b[j]

\* a - b on u64, for b <= a
U64Sub(a, b) ==
    LET d4 == a[4] - b[4]
        d3 == a[3] - b[3] - (IF d4 < 0 THEN 1 ELSE 0)
        d2 == a[2] - b[2] - (IF d3 < 0 THEN 1 ELSE 0)
        d1 == a[1] - b[1] - (IF d2 < 0 THEN 1 ELSE 0)
    IN  <<d1 % LIMB, d2 % LIMB, d3 % LIMB, d4 % LIMB>>

\* a TransactionOutput held by the wallet
Coin(v, id, to) == [value |-> U64(v), unique_id |-> id, pubkey |-> to]

\* the order in which the SkipMap of the cache iterates its keys
KeyOrder == <<"alice", "bob">>

\* `value as u64` of an f64 holding an integer: negative values give 0
F64AsU64(v) == IF v < 0 THEN 0 ELSE v

\* Core::calculate_fee; the Percent fee is taken of amounts below 2^16,
\* where amount * value / 100.0 is exact before the cast truncates it
calculate_fee(fee_config, amount) ==
    IF fee_config.fee_type = "Fixed"
    THEN U64(F64AsU64(fee_config.value))
    ELSE U64(F64AsU64((amount[4] * fee_config.value) \div 100))

\* the inner loop of create_transaction over the outputs cached for pubkey
RECURSIVE SelectInKey(_, _, _, _)
SelectInKey(entries, pubkey, acc, total_amount) ==
    IF entries = <<>> THEN acc
    ELSE LET entry == Head(entries)
         IN  IF entry.marked THEN SelectInKey(Tail(entries), pubkey, acc, total_amount)
             ELSE IF ~U64Less(acc.input_sum, total_amount) THEN acc
             ELSE LET sum == U64Add(acc.input_sum, entry.utxo.value)
                      next == [inputs |-> Append(acc.inputs,
                                                 Input(HashOutput(entry.utxo), pubkey)),
                               input_sum |-> sum.value,
                               overflow |-> acc.overflow \/ sum.overflow]
                  IN  SelectInKey(Tail(entries), pubkey, next, total_amount)

\* the outer loop of create_transaction over the keys of the cache
RECURSIVE SelectAcrossKeys(_, _, _, _)
SelectAcrossKeys(keys, utxos, acc, total_amount) ==
    IF keys = <<>> THEN acc
    ELSE IF Head(keys) \notin DOMAIN utxos
         THEN SelectAcrossKeys(Tail(keys), utxos, acc, total_amount)
    ELSE LET next == SelectInKey(utxos[Head(keys)], Head(keys), acc, total_amount)
         IN  IF ~U64Less(next.input_sum, total_amount) THEN next
             ELSE SelectAcrossKeys(Tail(keys), utxos, next, total_amount)

NoTx == Tx(<<>>, <<>>)

\* Core::create_transaction: the outcomes of the call. An addition that
\* passes 2^64 panics where overflow is checked and wraps where it is not.
create_transaction(w, recipient, amount) ==
    LET fee == calculate_fee(w.fee_config, amount)
        total_amount == U64Add(amount, fee)
        chosen == SelectAcrossKeys(KeyOrder, w.utxos,
                                   [inputs |-> <<>>, input_sum |-> U64(0), overflow |-> FALSE],
                                   total_amount.value)
        payment == [value |-> amount, unique_id |-> 1, pubkey |-> recipient]
        change == [value |-> U64Sub(chosen.input_sum, total_amount.value), unique_id |-> 2,
                   pubkey |-> w.my_keys[1]]
        returned ==
            IF U64Less(chosen.input_sum, total_amount.value)
            THEN [res |-> "Insufficient funds", tx |-> NoTx]
            ELSE IF U64Less(total_amount.value, chosen.input_sum)
            THEN [res |-> "Ok", tx |-> Tx(chosen.inputs, <<payment, change>>)]
            ELSE [res |-> "Ok", tx |-> Tx(chosen.inputs, <<payment>>)]
    IN  IF total_amount.overflow \/ chosen.overflow
        THEN {[res |-> "Panic", tx |-> NoTx], returned}
        ELSE {returned}

\* the outputs a node may hold for a key
WalletCoins(key) ==
    IF key = "alice" THEN {Coin(2, 11, "alice"), Coin(3, 12, "alice"), Coin(5, 13, "alice"),
                           Coin(1000, 14, "alice")}
    ELSE {Coin(4, 21, "bob")}

\* the UTXOs responses for a key: up to MaxWalletUtxos of its outputs, in
\* any order, each marked or not
UtxosResponses(key) ==
    {r \in UNION {[1..n -> [marked : BOOLEAN, utxo : WalletCoins(key)]] : n \in 0..MaxWalletUtxos} :
        \A i, j \in DOMAIN r : i # j => r[i].utxo # r[j].utxo}

FeeConfigs ==
    {[fee_type |-> "Fixed", value |-> v] : v \in {-1, 1, 100}}
        \cup {[fee_type |-> "Percent", value |-> v] : v \in {50}}

\* the amounts asked for: with a Percent fee only those below 2^16
WalletAmounts(fee_config) ==
    {U64(n) : n \in {0, 1, 2, 4, 6, 9, 900, 1000}}
        \cup (IF fee_config.fee_type = "Fixed" THEN {U64_MAX} ELSE {})

\* Core::load: the keys of the configuration, an empty cache
InitWallet ==
    /\ blockchain = BlockchainNew
    /\ now = 0
    /\ last = NoCall
    /\ last2 = NoCall
    /\ onlyAddBlock = FALSE
    /\ NodeIdle
    /\ \E keys \in {<<"alice">>, <<"bob", "alice">>} : \E fee_config \in FeeConfigs :
           wallet = [my_keys |-> keys, utxos |-> <<>>, fee_config |-> fee_config]

\* fetch_utxos: the response for one key replaces what the cache held for it
WlFetchUtxos(key, response) ==
    /\ \E i \in DOMAIN wallet.my_keys : wallet.my_keys[i] = key
    /\ wallet' = [wallet EXCEPT !.utxos =
                      [k \in DOMAIN wallet.utxos \cup {key} |->
                          IF k = key THEN response ELSE wallet.utxos[k]]]
    /\ last' = [op |-> "fetch_utxos", arg |-> key, res |-> "Ok", why |-> "none", pre |-> "none"]
    /\ UNCHANGED <<blockchain, now, last2, onlyAddBlock, nodeVars>>

WlCreateTransaction(recipient, amount) ==
    /\ \E out \in create_transaction(wallet, recipient, amount) :
           last' = [op |-> "create_transaction",
                    arg |-> [recipient |-> recipient, amount |-> amount],
                    res |-> out, why |-> "none", pre |-> "none"]
    /\ UNCHANGED <<blockchain, now, last2, onlyAddBlock, nodeVars, wallet>>

NextWallet ==
    \/ \E key \in {"alice", "bob"} : \E response \in UtxosResponses(key) :
           WlFetchUtxos(key, response)
    \/ \E recipient \in {"carol"} : \E amount \in WalletAmounts(wallet.fee_config) :
           WlCreateTransaction(recipient, amount)

SpecWallet == InitWallet /\ [][NextWallet]_vars

-----------------------------------------------------------------------------
(* SpecMerkle: MerkleRoot::calculate on sequences of transactions           *)

MerkleTxs == {TxGenesis, TxA}

MerkleInputs == UNION {[1..n -> MerkleTxs] : n \in 1..MaxMerkleTxs}

InitMerkle ==
    /\ WalletIdle
    /\ blockchain = BlockchainNew
    /\ now = 0
    /\ last = NoCall
    /\ last2 = NoCall
    /\ onlyAddBlock = FALSE
    /\ NodeIdle

MkCalculate(transactions) ==
    /\ last' = [op |-> "MerkleRoot::calculate", arg |-> transactions,
                res |-> MerkleRootCalculate(transactions), why |-> "none", pre |-> "none"]
    /\ last2' = last
    /\ UNCHANGED <<blockchain, now, onlyAddBlock, nodeVars, wallet>>

NextMerkle == \E transactions \in MerkleInputs : MkCalculate(transactions)

SpecMerkle == InitMerkle /\ [][NextMerkle]_vars

-----------------------------------------------------------------------------
(* SpecMiner: a node and a miner.  Each handler is one step, as under the  *)
(* BLOCKCHAIN lock; cur is the snapshot FetchTemplate last took and sent    *)
(* the Template the miner holds.                                            *)

MinerTxs == {TxA, TxF, TxForged}

\* the miner's loop: the first nonce whose header hash meets the header's target
CanMine(block) ==
    \E nonce \in 0..MaxNonce :
        matches_target([block.header EXCEPT !.nonce = nonce], block.header.target)

Mine(block) ==
    LET nonce == CHOOSE nonce \in 0..MaxNonce :
                     /\ matches_target([block.header EXCEPT !.nonce = nonce], block.header.target)
                     /\ \A lower \in 0..(nonce - 1) :
                            ~matches_target([block.header EXCEPT !.nonce = lower],
                                            block.header.target)
    IN  [block EXCEPT !.header.nonce = nonce]

InitMiner ==
    /\ WalletIdle
    /\ blockchain = GenesisChain
    /\ now = 0
    /\ last = NoCall
    /\ last2 = NoCall
    /\ onlyAddBlock = FALSE
    /\ pc = "unused"
    /\ lock = "unused"
    /\ inbox = "unused"
    /\ cur = NoMsg
    /\ sent = NoMsg
    /\ results = "unused"
    /\ syncLeft = "unused"
    /\ NODES = "unused"
    /\ file = "unused"

MinerQuiet == UNCHANGED <<now, last2, onlyAddBlock, pc, lock, inbox, results, syncLeft, NODES,
                          file, wallet>>

\* a handler's call under the write lock
MnWrite(m) ==
    /\ \E out \in WriteOutcomes(blockchain, m, now) :
           /\ blockchain' = out.bc
           /\ last' = IF m.kind = "SubmitTemplate"
                      THEN [op |-> m.kind, arg |-> m.arg, res |-> out.res, why |-> out.why,
                            pre |-> [bc |-> blockchain, snapshot |-> cur]]
                      ELSE [op |-> m.kind, arg |-> "none", res |-> out.res, why |-> out.why,
                            pre |-> "none"]
    /\ MinerQuiet

MnSubmitTransaction(tx) ==
    /\ Len(blockchain.mempool) < MaxMempool
    /\ MnWrite(Msg("SubmitTransaction", tx))
    /\ UNCHANGED <<cur, sent>>

MnNewBlock(block) ==
    /\ Len(blockchain.blocks) < MaxMinerBlocks
    /\ MnWrite(Msg("NewBlock", block))
    /\ UNCHANGED <<cur, sent>>

MnFetchTemplate(pubkey) ==
    /\ Len(blockchain.blocks) < MaxMinerBlocks
    /\ LET s == ReadReply(blockchain, Msg("FetchTemplate", pubkey))
       IN  /\ cur' = s
           /\ sent' = TemplateOf(s.arg)
    /\ last' = [op |-> "FetchTemplate", arg |-> pubkey, res |-> "none", why |-> "none",
                pre |-> "none"]
    /\ UNCHANGED blockchain
    /\ MinerQuiet

\* the miner seals the Template it holds and submits it
MnSubmitTemplate ==
    /\ sent.kind = "Template"
    /\ CanMine(sent.arg)
    /\ MnWrite(Msg("SubmitTemplate", Mine(sent.arg)))
    /\ sent' = NoMsg
    /\ UNCHANGED cur

\* the cleanup task's pass
MnCleanup ==
    /\ blockchain' = cleanup_mempool(blockchain, now)
    /\ last' = [op |-> "cleanup_mempool", arg |-> "none", res |-> "Ok", why |-> "none",
                pre |-> "none"]
    /\ UNCHANGED <<cur, sent>>
    /\ MinerQuiet

MnTick ==
    /\ now < MaxTicks * MAX_MEMPOOL_TRANSACTION_AGE
    /\ now' = now + MAX_MEMPOOL_TRANSACTION_AGE
    /\ UNCHANGED <<blockchain, last, last2, onlyAddBlock, nodeVars, wallet>>

\* the blocks a peer announces: a coinbase alone, or a coinbase and TxA
MinerPeerBlocks(bc) ==
    {TipBlock(bc, LastStamp(bc) + 1, txs) :
        txs \in {<<CbReward>>, <<Coinbase(AmtAdd(Coins(INITIAL_REWARD), Sat(1)), 13), TxA>>}}

NextMiner ==
    \/ \E tx \in MinerTxs : MnSubmitTransaction(tx)
    \/ \E block \in MinerPeerBlocks(blockchain) : MnNewBlock(block)
    \/ MnCleanup
    \/ MnTick
    \/ MnFetchTemplate("miner")
    \/ MnSubmitTemplate

SpecMiner == InitMiner /\ [][NextMiner]_vars

------------------------------------------------------------------------------
(* SpecRebuild: chains built by add_block from Blockchain::new(), with      *)
(* reservations taken by add_to_mempool, and rebuild_utxos called on them   *)

\* spends U2 and pays an output equal to the one it spends
TxRenew == Tx(<<Input(U2, "alice")>>, <<OutG2>>)

\* first blocks, which add_block takes without looking at their transactions:
\* the genesis coinbase alone, followed by a spend of U1, or preceded by it
RebuildGenesisLists == {<<TxGenesis>>, <<TxGenesis, TxA>>, <<TxA, TxGenesis>>}

RebuildTipLists ==
    {<<CbReward>>, <<CbRewardFee6, TxB>>, <<CbReward, TxRenew>>}

RebuildOffers(bc) ==
    {TipBlock(bc, LastStamp(bc) + 1, txs) :
        txs \in IF bc.blocks = <<>> THEN RebuildGenesisLists ELSE RebuildTipLists}

InitRebuild ==
    /\ WalletIdle
    /\ blockchain = BlockchainNew
    /\ now = 0
    /\ last = NoCall
    /\ last2 = NoCall
    /\ onlyAddBlock = TRUE
    /\ NodeIdle

RbAddBlock(block) ==
    /\ Len(blockchain.blocks) < MaxRebuildBlocks
    /\ LET out == add_block(blockchain, block)
       IN  /\ blockchain' = out.bc
           /\ last' = [op |-> "add_block", arg |-> block, res |-> out.res,
                       why |-> out.why, pre |-> blockchain.utxos]
    /\ UNCHANGED <<now, last2, onlyAddBlock, nodeVars, wallet>>

RbAdd(tx) ==
    /\ Len(blockchain.mempool) < MaxMempool
    /\ \E out \in add_to_mempool(blockchain, tx, now) :
        /\ blockchain' = out.bc
        /\ last' = [op |-> "add_to_mempool", arg |-> tx, res |-> out.res,
                    why |-> "none", pre |-> blockchain.utxos]
    /\ UNCHANGED <<now, last2, onlyAddBlock, nodeVars, wallet>>

RbRebuildUtxos ==
    /\ blockchain' = rebuild_utxos(blockchain)
    /\ last' = [op |-> "rebuild_utxos", arg |-> "none", res |-> "Ok",
                why |-> "none", pre |-> blockchain.utxos]
    /\ UNCHANGED <<now, last2, onlyAddBlock, nodeVars, wallet>>

NextRebuild ==
    \/ \E block \in RebuildOffers(blockchain) : RbAddBlock(block)
    \/ \E tx \in {TxA, TxF} : RbAdd(tx)
    \/ RbRebuildUtxos

SpecRebuild == InitRebuild /\ [][NextRebuild]_vars

------------------------------------------------------------------------------
(* SpecPeers: the peer table.  Here NODES maps each peer to the task that   *)
(* holds the guard get_mut returned for its entry, or to Free.  A DashMap   *)
(* guard is a lock of the thread: a task that finds it taken does not       *)
(* yield, it keeps its worker thread until the guard is dropped.  main runs *)
(* on the thread that called block_on, the handlers on the worker threads.  *)

Free == "none"

PeerTasks == Conns \cup {"main"}

\* the orders in which an iteration may meet the keys
Orders(S) == {order \in [1..Cardinality(S) -> S] : \A x \in S : \E i \in DOMAIN order : order[i] = x}

NoLoop == [kind |-> "none", rest |-> <<>>]

\* after populate_connections has inserted two peers
InitPeers ==
    /\ WalletIdle
    /\ blockchain = BlockchainNew
    /\ now = 0
    /\ last = NoCall
    /\ last2 = NoCall
    /\ onlyAddBlock = FALSE
    /\ lock = "unused"
    /\ inbox = "unused"
    /\ sent = "unused"
    /\ results = "unused"
    /\ syncLeft = "unused"
    /\ file = "unused"
    /\ NODES = [n \in {Peer, Peer2} |-> Free]
    /\ pc = [t \in PeerTasks |-> IF t = "main" THEN "iter" ELSE "unspawned"]
    /\ cur = [t \in PeerTasks |-> IF t = "main" THEN [kind |-> "AskDifference", rest |-> <<>>]
                                  ELSE NoLoop]

PeersQuiet == UNCHANGED <<blockchain, now, last, last2, onlyAddBlock, lock, inbox, sent,
                          results, syncLeft, file, wallet>>

\* a handler at a call into the peer table is on a worker thread
OnWorker(t) == t \in Conns /\ pc[t] \in {"iter", "get_mut"}

\* a worker thread is there to poll a task whose await has completed
WorkerFree == Cardinality({t \in Conns : OnWorker(t)}) < WorkerThreads

\* find_longest_chain_node: NODES.iter() ... collect()
PsMainIter ==
    /\ pc["main"] = "iter"
    /\ \A n \in DOMAIN NODES : NODES[n] = Free
    /\ \E order \in Orders(DOMAIN NODES) :
           cur' = [cur EXCEPT !["main"].rest = order]
    /\ pc' = [pc EXCEPT !["main"] = "get_mut"]
    /\ UNCHANGED NODES
    /\ PeersQuiet

\* find_longest_chain_node: get_mut(&node), then send_async(...).await
PsMainGetMut ==
    /\ pc["main"] = "get_mut"
    /\ NODES[Head(cur["main"].rest)] = Free
    /\ NODES' = [NODES EXCEPT ![Head(cur["main"].rest)] = "main"]
    /\ pc' = [pc EXCEPT !["main"] = "asking"]
    /\ UNCHANGED cur
    /\ PeersQuiet

\* find_longest_chain_node: receive_async(...).await returns and the turn of
\* the loop ends, dropping the guard; after the last turn main goes on to the
\* listener
PsMainAnswered ==
    /\ pc["main"] = "asking"
    /\ NODES' = [NODES EXCEPT ![Head(cur["main"].rest)] = Free]
    /\ cur' = [cur EXCEPT !["main"].rest = Tail(@)]
    /\ pc' = [pc EXCEPT !["main"] = IF Tail(cur["main"].rest) = <<>> THEN "accept" ELSE "get_mut"]
    /\ PeersQuiet

\* listener.accept() and tokio::spawn(handle_connection(socket))
PsAccept(c) ==
    /\ pc["main"] = "accept"
    /\ pc[c] = "unspawned"
    /\ pc' = [pc EXCEPT ![c] = "receive"]
    /\ UNCHANGED <<NODES, cur>>
    /\ PeersQuiet

\* receive_async returns DiscoverNodes, or a SubmitTemplate whose block
\* add_block takes: the handler comes to NODES.iter()
PsReceive(c, kind) ==
    /\ pc[c] = "receive"
    /\ WorkerFree
    /\ cur' = [cur EXCEPT ![c] = [kind |-> kind, rest |-> <<>>]]
    /\ pc' = [pc EXCEPT ![c] = "iter"]
    /\ UNCHANGED NODES
    /\ PeersQuiet

\* NODES.iter().map(|x| x.key().clone()).collect(): reads every entry, which
\* it can once no guard of get_mut is out
PsIter(c) ==
    /\ pc[c] = "iter"
    /\ \A n \in DOMAIN NODES : NODES[n] = Free
    /\ \E order \in Orders(DOMAIN NODES) :
           cur' = [cur EXCEPT ![c].rest = order]
    /\ pc' = [pc EXCEPT ![c] = IF cur[c].kind = "DiscoverNodes" THEN "send_list" ELSE "get_mut"]
    /\ UNCHANGED NODES
    /\ PeersQuiet

\* DiscoverNodes: NodeList(nodes).send_async(&mut socket).await returns
PsListSent(c) ==
    /\ pc[c] = "send_list"
    /\ WorkerFree
    /\ cur' = [cur EXCEPT ![c] = NoLoop]
    /\ pc' = [pc EXCEPT ![c] = "receive"]
    /\ UNCHANGED NODES
    /\ PeersQuiet

\* the broadcast loop: NODES.get_mut(&node), then send_async(&mut *stream).await
PsGetMut(c) ==
    /\ pc[c] = "get_mut"
    /\ NODES[Head(cur[c].rest)] = Free
    /\ NODES' = [NODES EXCEPT ![Head(cur[c].rest)] = c]
    /\ pc' = [pc EXCEPT ![c] = "sending"]
    /\ UNCHANGED cur
    /\ PeersQuiet

\* the broadcast loop: the send returns, with Ok or Err, and the turn of the
\* loop ends, dropping the guard
PsSent(c) ==
    /\ pc[c] = "sending"
    /\ WorkerFree
    /\ NODES' = [NODES EXCEPT ![Head(cur[c].rest)] = Free]
    /\ cur' = [cur EXCEPT ![c] = IF Tail(@.rest) = <<>> THEN NoLoop ELSE [@ EXCEPT !.rest = Tail(@)]]
    /\ pc' = [pc EXCEPT ![c] = IF Tail(cur[c].rest) = <<>> THEN "receive" ELSE "get_mut"]
    /\ PeersQuiet

NextPeers ==
    \/ PsMainIter
    \/ PsMainGetMut
    \/ PsMainAnswered
    \/ \E c \in Conns : PsAccept(c)
    \/ \E c \in Conns : \E kind \in {"DiscoverNodes", "SubmitTemplate"} : PsReceive(c, kind)
    \/ \E c \in Conns : PsIter(c)
    \/ \E c \in Conns : PsListSent(c)
    \/ \E c \in Conns : PsGetMut(c)
    \/ \E c \in Conns : PsSent(c)

SpecPeers == InitPeers /\ [][NextPeers]_vars

-----------------------------------------------------------------------------
(* Claims *)

MempoolTxs == {blockchain.mempool[k][2] : k \in DOMAIN blockchain.mempool}

InputSet(tx) == SeqRange(InputHashes(tx))

\* C1: starting from Blockchain::new(), after any sequence of add_block calls
\* that each return Ok and nothing else in between, utxos equals the replay of
\* every transaction of blocks, in order, from an empty set.
C1_UtxosEqualReplay ==
    onlyAddBlock => blockchain.utxos = RebuildBlocks(<<>>, blockchain.blocks)

\* C2: replace-by-fee: when add_to_mempool(A) returns Ok and then
\* add_to_mempool(B) returns Ok, A and B distinct and sharing an input, the
\* mempool holds B and not A, and every input of A that is not an input of B
\* is unmarked.
C2_ReplaceByFee ==
    (/\ last2.op = "add_to_mempool" /\ last2.res = "Ok"
     /\ last.op = "add_to_mempool" /\ last.res = "Ok"
     /\ last2.arg # last.arg
     /\ InputSet(last2.arg) \cap InputSet(last.arg) # {})
    => /\ last.arg \in MempoolTxs
       /\ last2.arg \notin MempoolTxs
       /\ \A h \in InputSet(last2.arg) \ InputSet(last.arg) :
              ~blockchain.utxos[h].marked

\* C3: no utxo key is referenced as an input by two different mempool entries.
C3_NoSharedInput ==
    \A i, j \in DOMAIN blockchain.mempool :
        i # j => InputSet(blockchain.mempool[i][2]) \cap InputSet(blockchain.mempool[j][2]) = {}

\* C4: after every successful mutation, every input of every mempool
\* transaction references a key present in utxos whose marked flag is true.
C4_MempoolInputsReserved ==
    last.res = "Ok" =>
        \A tx \in MempoolTxs : \A h \in InputSet(tx) :
            h \in DOMAIN blockchain.utxos /\ blockchain.utxos[h].marked

\* C5: after successful add_to_mempool calls the mempool is sorted by
\* descending miner fee: each entry's fee is at least the next entry's.
C5_FeeDescending ==
    (/\ last.op = "add_to_mempool" /\ last.res = "Ok"
     /\ last2.op \in {"none", "add_to_mempool"} /\ last2.res \in {"none", "Ok"})
    => \A i \in DOMAIN blockchain.mempool : i < Len(blockchain.mempool) =>
           AmtLeq(MinerFee(blockchain.utxos, blockchain.mempool[i + 1][2]),
                  MinerFee(blockchain.utxos, blockchain.mempool[i][2]))

\* the faults of the block last submitted, against the chain it was submitted to
LastTip == last.pre.blocks[Len(last.pre.blocks)]

LastBadPrev == last.arg.header.prev_block_hash # HashHeader(LastTip.header)

LastBadPow == DigestValue(last.arg.header) > last.arg.header.target

LastBadRoot ==
    /\ last.arg.transactions # <<>>
    /\ MerkleRootCalculate(last.arg.transactions) # last.arg.header.merkle_root

LastBadTime == last.arg.header.timestamp <= LastTip.header.timestamp

LastOnChain == last.op = "add_block" /\ last.pre.blocks # <<>>

\* C8: on a non-empty chain add_block checks, in this order, the previous hash
\* (InvalidBlock), the proof of work (InvalidBlock), the Merkle root
\* (InvalidMerkleRoot) and the timestamp (InvalidBlock); the first check that
\* fails decides the error.
C8_CheckOrder ==
    LastOnChain =>
        /\ LastBadPrev => last.res = "InvalidBlock" /\ last.why = "prev hash is wrong"
        /\ (~LastBadPrev /\ LastBadPow) =>
               last.res = "InvalidBlock" /\ last.why = "does not match target"
        /\ (~LastBadPrev /\ ~LastBadPow /\ LastBadRoot) => last.res = "InvalidMerkleRoot"
        /\ (/\ ~LastBadPrev /\ ~LastBadPow /\ ~LastBadRoot
            /\ last.arg.transactions # <<>> /\ LastBadTime)
           => last.res = "InvalidBlock" /\ last.why = "timestamp"

\* a block with a good previous hash, no proof of work and a wrong Merkle root
\* was rejected for its proof of work
C8_Witness ==
    /\ LastOnChain
    /\ ~LastBadPrev /\ LastBadPow /\ LastBadRoot /\ LastBadTime
    /\ last.res = "InvalidBlock"

C10_ChainLinkage ==
    \A i \in DOMAIN blockchain.blocks :
        blockchain.blocks[i].header.prev_block_hash =
            IF i = 1 THEN ZeroHash ELSE HashHeader(blockchain.blocks[i - 1].header)

\* a second block was appended
C10_Witness == Len(blockchain.blocks) >= 2

\* the positions at which a task waits on the network, the file system or a timer
NetworkPcs == {"populate", "find_longest", "download", "listen", "accept",
               "receive", "send", "broadcast"}
IoPcs == NetworkPcs \cup {"load_file", "save_to_file", "tick"}

\* C6: lock discipline: no task is at a network send or receive, or at any
\* other wait on I/O, while it holds the BLOCKCHAIN read or write lock.
C6_LockDiscipline ==
    \A t \in Tasks : pc[t] \in IoPcs => ~Holds(t)

\* the part of C6 about the network alone: no task is at a network send or
\* receive while it holds the lock
NoNetworkIoUnderLock ==
    \A t \in Tasks : pc[t] \in NetworkPcs => ~Holds(t)

\* calls i and i + 1 of the log are a race: two connections, two distinct
\* blocks written while the chain had the same length, each one a block
\* add_block would have taken alone, and the first call found the chain as
\* its sender saw it
BlockRace(i) ==
    /\ i + 1 \in DOMAIN results.log
    /\ LET a == results.log[i]
           b == results.log[i + 1]
       IN  /\ a.conn # b.conn
           /\ a.block # b.block
           /\ a.valid /\ b.valid
           /\ a.base = b.base
           /\ a.pre = a.base
           /\ a.block.header.prev_block_hash = b.block.header.prev_block_hash

\* C7: two distinct, individually valid blocks on the current tip submitted
\* concurrently on two connections (SubmitTemplate or NewBlock): exactly one
\* is appended, the other add_block call returns InvalidBlock because
\* prev_block_hash no longer matches the tip, and the chain grows by one.
C7_ConcurrentSubmission ==
    \A i \in DOMAIN results.log :
        BlockRace(i) =>
            LET a == results.log[i]
                b == results.log[i + 1]
            IN  /\ a.res = "Ok"
                /\ b.res = "InvalidBlock"
                /\ b.why = "prev hash is wrong"
                /\ a.post = a.base + 1
                /\ b.post = a.base + 1
                /\ blockchain.blocks[a.base + 1] = a.block

C7_Witness ==
    \E i \in DOMAIN results.log :
        /\ BlockRace(i)
        /\ results.log[i].kind = "SubmitTemplate"
        /\ results.log[i + 1].kind = "NewBlock"
        /\ results.log[i].base = 1

\* C11: proof of work: every block above the genesis block has a header hash
\* that, read as an unsigned integer, is at most the target in its own header.
C11_ProofOfWork ==
    \A i \in DOMAIN blockchain.blocks :
        i > 1 => DigestValue(blockchain.blocks[i].header) <= blockchain.blocks[i].header.target

\* the second block of a chain has a hash above MIN_TARGET and within the
\* target of its own header
C11_Witness ==
    /\ Len(blockchain.blocks) = 2
    /\ DigestValue(blockchain.blocks[2].header) > MIN_TARGET
    /\ DigestValue(blockchain.blocks[2].header) <= blockchain.blocks[2].header.target

\* C12: timestamps strictly increase along the chain.
C12_MonotoneTimestamps ==
    \A i \in DOMAIN blockchain.blocks :
        i > 1 => blockchain.blocks[i].header.timestamp > blockchain.blocks[i - 1].header.timestamp

\* add_block has just appended a second block, later than the first
C12_Witness ==
    /\ LastOnChain /\ last.res = "Ok"
    /\ blockchain.blocks = Append(last.pre.blocks, last.arg)
    /\ last.arg.header.timestamp > LastTip.header.timestamp

\* C13: every block of the chain, the genesis block included, carries the
\* Merkle root of its transactions.
C13_MerkleInvariant ==
    \A i \in DOMAIN blockchain.blocks :
        /\ blockchain.blocks[i].transactions # <<>>
        /\ blockchain.blocks[i].header.merkle_root =
               MerkleRootCalculate(blockchain.blocks[i].transactions)

\* the part of C13 above the genesis block
MerkleAboveGenesis ==
    \A i \in DOMAIN blockchain.blocks :
        i > 1 => /\ blockchain.blocks[i].transactions # <<>>
                 /\ blockchain.blocks[i].header.merkle_root =
                        MerkleRootCalculate(blockchain.blocks[i].transactions)

\* the entries of seq at the indices of keep, in their order
Nth(keep, i) == CHOOSE k \in keep : Cardinality({j \in keep : j <= k}) = i
KeptInOrder(seq, keep) == [i \in 1..Cardinality(keep) |-> seq[Nth(keep, i)]]

BlockTxHashes(block) == {HashTx(block.transactions[i]) : i \in DOMAIN block.transactions}

\* C14: after add_block returns Ok the mempool is the previous mempool
\* without the entries whose transaction hash is that of a transaction of the
\* block, in the previous order, and blocks is the previous sequence with the
\* block appended.
C14_AddBlockEffect ==
    (last.op = "add_block" /\ last.res = "Ok") =>
        /\ blockchain.mempool =
               KeptInOrder(last.pre.mempool,
                           {k \in DOMAIN last.pre.mempool :
                               HashTx(last.pre.mempool[k][2]) \notin BlockTxHashes(last.arg)})
        /\ blockchain.blocks = Append(last.pre.blocks, last.arg)

\* add_block took a block holding one of two mempool transactions
C14_Witness ==
    /\ last.op = "add_block" /\ last.res = "Ok"
    /\ Len(last.pre.mempool) = 2
    /\ Len(blockchain.mempool) = 1
    /\ HashTx(blockchain.mempool[1][2]) \notin BlockTxHashes(last.arg)

\* what add_to_mempool must turn away, read from the state before the call
LastMissing == \E h \in InputSet(last.arg) : h \notin DOMAIN last.pre.utxos
LastDuplicate ==
    \E i, j \in DOMAIN last.arg.inputs :
        i < j /\ last.arg.inputs[i].prev_transaction_output_hash
                     = last.arg.inputs[j].prev_transaction_output_hash
LastOverspend ==
    AmtLess(AmtSum([i \in DOMAIN last.arg.inputs |->
                       last.pre.utxos[last.arg.inputs[i].prev_transaction_output_hash].output.value]),
            AmtSum(OutputValues(last.arg)))

\* C15: add_to_mempool returns InvalidTransaction for an input that is no
\* utxo, for an input given twice and for outputs worth more than the inputs;
\* otherwise it returns Ok, the transaction is in the mempool and every utxo
\* it references is marked.
C15_AdmissionChecks ==
    last.op = "add_to_mempool" =>
        IF LastMissing \/ LastDuplicate THEN last.res = "InvalidTransaction"
        ELSE IF LastOverspend THEN last.res = "InvalidTransaction"
        ELSE /\ last.res = "Ok"
             /\ last.arg \in MempoolTxs
             /\ \A h \in InputSet(last.arg) : blockchain.utxos[h].marked

\* C15 for the calls that return: the checks decide between
\* InvalidTransaction and Ok as the claim says
AdmissionChecksWhenReturning == last.res # "Panic" => C15_AdmissionChecks

\* C16: cleanup_mempool removes exactly the entries older than
\* MAX_MEMPOOL_TRANSACTION_AGE seconds, keeps the others in their order,
\* unmarks every utxo a removed transaction referenced and leaves blocks,
\* target and the keys of utxos alone.
C16_CleanupMempool ==
    last.op = "cleanup_mempool" =>
        LET removed == {k \in DOMAIN last.pre.mempool :
                           last.arg - last.pre.mempool[k][1] > MAX_MEMPOOL_TRANSACTION_AGE}
        IN  /\ blockchain.mempool =
                   KeptInOrder(last.pre.mempool, DOMAIN last.pre.mempool \ removed)
            /\ \A k \in removed : \A h \in InputSet(last.pre.mempool[k][2]) :
                   h \in DOMAIN blockchain.utxos => ~blockchain.utxos[h].marked
            /\ blockchain.blocks = last.pre.blocks
            /\ blockchain.target = last.pre.target
            /\ DOMAIN blockchain.utxos = DOMAIN last.pre.utxos

\* cleanup met an entry of exactly the age limit and an older one: the
\* first stayed, the second went and its utxo is unmarked
C16_Witness ==
    /\ last.op = "cleanup_mempool"
    /\ Len(last.pre.mempool) = 2
    /\ \E k \in DOMAIN last.pre.mempool :
           last.arg - last.pre.mempool[k][1] = MAX_MEMPOOL_TRANSACTION_AGE
    /\ \E k \in DOMAIN last.pre.mempool :
           /\ last.arg - last.pre.mempool[k][1] > MAX_MEMPOOL_TRANSACTION_AGE
           /\ \E h \in InputSet(last.pre.mempool[k][2]) : last.pre.utxos[h].marked
    /\ Len(blockchain.mempool) = 1

\* a call of try_adjust_target just returned: directly, or at the end of an
\* add_block that accepted its block
LastAdjusted ==
    /\ last.res = "Ok"
    /\ \/ last.op = "try_adjust_target"
       \/ last.op = "add_block" /\ blockchain.blocks = Append(last.pre.blocks, last.arg)

Min2(a, b) == IF a < b THEN a ELSE b

\* C17 (difficulty clamp): after every call of try_adjust_target in which a
\* retarget happens, old/4 <= new <= min(old*4, MIN_TARGET), old and new being
\* the target before and after; and the target is at most MIN_TARGET in
\* every state.
C17_DifficultyClamp ==
    /\ blockchain.target <= MIN_TARGET
    /\ (LastAdjusted /\ Retargets(blockchain)) =>
           /\ last.pre.target \div 4 <= blockchain.target
           /\ blockchain.target <= Min2(last.pre.target * 4, MIN_TARGET)

\* a retarget whose scaled target lay below a quarter of the old target
C17_Witness ==
    /\ LastAdjusted
    /\ Retargets(blockchain)
    /\ last.pre.target > 4
    /\ ScaleTarget(last.pre.target, TimeDiffSeconds(blockchain),
                   IDEAL_BLOCK_TIME * DIFFICULTY_UPDATE_INTERVAL) < last.pre.target \div 4
    /\ blockchain.target = last.pre.target \div 4

\* the target the retargeting rule gives
Clamp(x, lo, hi) == IF x < lo THEN lo ELSE IF x > hi THEN hi ELSE x

RuleTarget(old, blocks) ==
    LET actual == blocks[Len(blocks)].header.timestamp
                      - blocks[Len(blocks) - DIFFICULTY_UPDATE_INTERVAL + 1].header.timestamp
        ideal == IDEAL_BLOCK_TIME * DIFFICULTY_UPDATE_INTERVAL
        floored == old * (actual \div ideal) + (old * (actual % ideal)) \div ideal
    IN  Min2(Clamp(floored, old \div 4, old * 4), MIN_TARGET)

LastCalledAdjust ==
    \/ last.op = "try_adjust_target"
    \/ /\ last.op = "add_block"
       /\ last.res \in {"Ok", "Panic"}
       /\ blockchain.blocks = Append(last.pre.blocks, last.arg)

\* C18 (retargeting): a call of try_adjust_target returns; it leaves the
\* target unchanged when the chain is empty or its length is no multiple of
\* DIFFICULTY_UPDATE_INTERVAL, and otherwise sets it to
\* min(clamp(floor(target * actual / ideal), target/4, target*4), MIN_TARGET).
C18_Retargeting ==
    LastCalledAdjust =>
        /\ last.res = "Ok"
        /\ blockchain.target = IF Retargets(blockchain)
                               THEN RuleTarget(last.pre.target, blockchain.blocks)
                               ELSE last.pre.target

\* the rule of C18 for the calls that return
RetargetingWhenReturning ==
    LastAdjusted =>
        blockchain.target = IF Retargets(blockchain)
                            THEN RuleTarget(last.pre.target, blockchain.blocks)
                            ELSE last.pre.target

\* an interval of twice the ideal time doubles a target below MIN_TARGET / 2
TwiceIdealDoubles ==
    (LastAdjusted /\ Retargets(blockchain)
        /\ TimeDiffSeconds(blockchain) = 2 * IDEAL_BLOCK_TIME * DIFFICULTY_UPDATE_INTERVAL)
    => blockchain.target = Min2(last.pre.target * 2, MIN_TARGET)

TwiceIdealSeen ==
    /\ LastAdjusted /\ Retargets(blockchain)
    /\ TimeDiffSeconds(blockchain) = 2 * IDEAL_BLOCK_TIME * DIFFICULTY_UPDATE_INTERVAL
    /\ blockchain.target = last.pre.target * 2
    /\ blockchain.target > 0

RetargetPanicSeen == last.res = "Panic" /\ last.op = "add_block"

\* the reward of the rule: INITIAL_REWARD * 10^8 halved once per halving
RuleReward(height) == AmtShr(Coins(INITIAL_REWARD), height \div HALVING_INTERVAL)

\* C19 (halving): at every height h calculate_block_reward returns
\* (INITIAL_REWARD * 10^8) >> (h / HALVING_INTERVAL); at height
\* k * HALVING_INTERVAL that is the reward of height 0 shifted right by k bits.
C19_Halving ==
    last.op = "calculate_block_reward" => last.res = <<RuleReward(last.arg)>>

\* the rule of C19 below U64_BITS halvings
HalvingBelowWidth ==
    (last.op = "calculate_block_reward" /\ last.arg \div HALVING_INTERVAL < U64_BITS)
    => last.res = <<RuleReward(last.arg)>>

HalvedOnceSeen ==
    /\ last.op = "calculate_block_reward"
    /\ last.arg = HALVING_INTERVAL
    /\ last.res = <<Coins(INITIAL_REWARD \div 2)>>

RewardWrappedSeen ==
    /\ last.op = "calculate_block_reward"
    /\ last.arg = U64_BITS * HALVING_INTERVAL
    /\ last.res = <<Coins(INITIAL_REWARD)>>

RewardPanicSeen ==
    /\ last.op = "calculate_block_reward"
    /\ last.arg = U64_BITS * HALVING_INTERVAL
    /\ last.res = <<>>

\* a chain every block of which add_block accepts on the utxos its
\* predecessors leave
ValidChain(chain) ==
    \A i \in DOMAIN chain :
        LET before == [BlockchainNew EXCEPT !.blocks = SubSeq(chain, 1, i - 1)]
        IN  add_block(rebuild_utxos(before), chain[i]).res = "Ok"

\* the node started without a chain file from a seed serving a valid chain
SeededStart == ~file.exists /\ syncLeft.chain # <<>> /\ ValidChain(syncLeft.chain)

SpendsIn(chain) ==
    \E i \in DOMAIN chain : \E j \in DOMAIN chain[i].transactions :
        chain[i].transactions[j].inputs # <<>>

\* C20 (startup chain sync): started with no chain file from a seed whose
\* chain of n blocks is valid, main fetches the blocks 0..n-1 in order and
\* comes to its listener with these n blocks as its chain and their replay
\* as its utxos; it does not stop on the way.
C20_StartupSync ==
    SeededStart =>
        /\ pc["main"] \notin {"exited", "panicked"}
        /\ pc["main"] = "listen" =>
               /\ blockchain.blocks = syncLeft.chain
               /\ blockchain.utxos = rebuild_utxos(blockchain).utxos
        /\ \A i \in DOMAIN sent["main"] :
               sent["main"][i].msg.kind = "FetchBlock" =>
                   /\ sent["main"][i].to = {Peer}
                   /\ \A j \in 1..(i - 1) :
                          sent["main"][j].msg.kind = "FetchBlock" =>
                              sent["main"][j].msg.arg < sent["main"][i].msg.arg

\* C20 for the chains that hold coinbase transactions only
SyncOfCoinbaseChains == ~SpendsIn(syncLeft.chain) => C20_StartupSync

SyncCompletedSeen ==
    /\ SeededStart
    /\ pc["main"] = "listen"
    /\ blockchain.blocks = syncLeft.chain
    /\ blockchain.utxos # BlockchainNew.utxos

SyncAbortedSeen ==
    /\ SeededStart
    /\ SpendsIn(syncLeft.chain)
    /\ pc["main"] = "exited"
    /\ Len(blockchain.blocks) < Len(syncLeft.chain)

C21_RestartFromFile ==
    last.op = "load_blockchain" =>
        /\ last.res = "Ok"
        /\ blockchain.blocks = Field(file.blob, "blocks")
        /\ blockchain.target = Field(file.blob, "target")
        /\ blockchain.utxos = RebuildBlocks(BlockchainNew.utxos, blockchain.blocks)

\* C21 for the chains whose length is no multiple of the retarget interval
RestartOffInterval ==
    (last.op = "load_blockchain" /\ ~Retargets(blockchain)) => C21_RestartFromFile

\* C21 without the target
RestartKeepsBlocks ==
    last.op = "load_blockchain" =>
        /\ blockchain.blocks = Field(file.blob, "blocks")
        /\ blockchain.utxos = RebuildBlocks(BlockchainNew.utxos, blockchain.blocks)

RestartRetargetedSeen ==
    /\ last.op = "load_blockchain"
    /\ Len(blockchain.blocks) = DIFFICULTY_UPDATE_INTERVAL
    /\ blockchain.target < Field(file.blob, "target")

RestartSameSeen ==
    /\ last.op = "load_blockchain"
    /\ Len(blockchain.blocks) = DIFFICULTY_UPDATE_INTERVAL
    /\ blockchain.target = Field(file.blob, "target")
    /\ blockchain.utxos # BlockchainNew.utxos

Spawned == pc["main"] = "accept"

\* C25 (periodic tasks): once spawned, the cleanup task and the save task
\* are in their loops in every state; an error while persisting the chain
\* does not stop the save task.
C25_PeriodicTasksRun ==
    Spawned =>
        /\ pc["cleanup"] \in {"tick", "write", "writing"}
        /\ pc["save"] \in {"tick", "read", "save_to_file"}

\* C25 for the cleanup task and the listener
CleanupAndListenerRun ==
    Spawned => pc["cleanup"] \in {"tick", "write", "writing"}

SaveStoppedSeen ==
    /\ pc["save"] = "panicked"
    /\ pc["main"] = "accept"
    /\ lock = Unlocked
    /\ ~file.exists

SavedSeen == file.exists /\ pc["save"] = "tick" /\ Field(file.blob, "blocks") # <<>>

\* the handler of connection c leaves the write lock in this step
HandlerWrote(c) == pc[c] = "writing" /\ pc'[c] # "writing"

\* what the call under the write lock returns for the message of c
WriteRejected(c) ==
    IF cur[c].kind \in {"NewBlock", "SubmitTemplate"}
    THEN add_block(blockchain, cur[c].arg).res \notin {"Ok", "Panic"}
    ELSE \A out \in add_to_mempool(blockchain, cur[c].arg, now) : out.res = "InvalidTransaction"

WriteAccepted(c) ==
    IF cur[c].kind \in {"NewBlock", "SubmitTemplate"}
    THEN add_block(blockchain, cur[c].arg).res = "Ok"
    ELSE \A out \in add_to_mempool(blockchain, cur[c].arg, now) : out.res = "Ok"

\* a closed connection stays closed: nothing is read from it or sent for it
ClosedForGood(c) ==
    pc[c] = "closed" =>
        pc'[c] = "closed" /\ inbox'[c] = inbox[c] /\ sent'[c] = sent[c] /\ cur'[c] = cur[c]

\* C23 (rejection handling): a rejected NewTransaction, SubmitTransaction or
\* SubmitTemplate closes the connection with nothing broadcast and no later
\* message of the connection processed; a rejected NewBlock leaves the
\* handler in its loop, at the next message.
C23_RejectionHandling ==
    [][\A c \in Conns :
          /\ (HandlerWrote(c) /\ WriteRejected(c)) =>
                 /\ sent' = sent
                 /\ pc'[c] = IF cur[c].kind = "NewBlock" THEN "receive" ELSE "closed"
          /\ ClosedForGood(c)]_vars

\* a connection closed on its first message, a rejected SubmitTemplate,
\* with its second message left unread
C23_Witness ==
    /\ pc["c1"] = "closed"
    /\ inbox["c1"].queue # <<>>
    /\ sent["c1"] = <<>>
    /\ \E i \in DOMAIN results.log :
           /\ results.log[i].conn = "c1"
           /\ results.log[i].kind = "SubmitTemplate"
           /\ results.log[i].res = "InvalidBlock"

NewBlockRejectedThenNextSeen ==
    /\ \E i \in DOMAIN results.log :
           /\ results.log[i].conn = "c1"
           /\ results.log[i].kind = "NewBlock"
           /\ results.log[i].res # "Ok"
    /\ cur["c1"].kind = "NewTransaction"
    /\ cur["c1"].arg = TxA
    /\ pc["c1"] = "receive"
    /\ blockchain.mempool # <<>>

C26_RoleMismatch ==
    [][\A c \in Conns :
          /\ (/\ pc[c] = "receive"
              /\ inbox[c].queue # <<>>
              /\ Head(inbox[c].queue).msg.kind \in
                     {"UTXOs", "Template", "Difference", "TemplateValidity", "NodeList"}
              /\ pc'[c] # "receive") =>
                 /\ pc'[c] = "closed"
                 /\ sent' = sent
                 /\ blockchain' = blockchain
                 /\ NODES' = NODES
                 /\ \A d \in Conns \ {c} :
                        pc'[d] = pc[d] /\ inbox'[d] = inbox[d] /\ cur'[d] = cur[d]
          /\ (pc[c] = "closed" /\ cur[c].kind \in
                     {"UTXOs", "Template", "Difference", "TemplateValidity", "NodeList"}) =>
                 (pc'[c] = "closed" /\ sent'[c] = sent[c])]_vars

\* a connection closed by a NodeList while the other connection's handler
\* is at work under the write lock
C26_Witness ==
    /\ pc["c1"] = "closed"
    /\ cur["c1"].kind = "NodeList"
    /\ sent["c1"] = <<>>
    /\ pc["c2"] = "writing"

\* C29 (ValidateTemplate): the answer is TemplateValidity(true) exactly when
\* the template's prev_block_hash is the hash of the last block, or the zero
\* hash on an empty chain; computing and sending it changes no state.
C29_ValidateTemplate ==
    [][\A c \in Conns :
          /\ (pc[c] = "reading" /\ cur[c].kind = "ValidateTemplate" /\ pc'[c] # "reading") =>
                 /\ cur'[c] = Msg("TemplateValidity",
                                   cur[c].arg.header.prev_block_hash =
                                       IF blockchain.blocks = <<>> THEN ZeroHash
                                       ELSE HashHeader(blockchain.blocks[Len(blockchain.blocks)].header))
                 /\ pc'[c] = "send"
                 /\ blockchain' = blockchain /\ NODES' = NODES /\ file' = file
          /\ (pc[c] = "send" /\ cur[c].kind = "TemplateValidity" /\ pc'[c] # "send") =>
                 /\ sent'[c] = Append(sent[c], [to |-> {c}, msg |-> cur[c], failed |-> {}])
                 /\ blockchain' = blockchain /\ NODES' = NODES /\ file' = file]_vars

\* a template on the tip its sender saw, answered false because a block was
\* appended before the handler read the chain
C29_Witness ==
    \E c \in Conns :
        /\ pc[c] = "send"
        /\ cur[c].kind = "TemplateValidity"
        /\ ~cur[c].arg
        /\ Len(blockchain.blocks) = results.pending[c].base + 1

TemplateValidOnEmptyChainSeen ==
    \E c \in Conns :
        /\ pc[c] = "send"
        /\ cur[c].kind = "TemplateValidity"
        /\ cur[c].arg
        /\ blockchain.blocks = <<>>

LastTemplate == last.op = "FetchTemplate" /\ last.res.kind = "Template"

\* C27 (template size): a Template returned for FetchTemplate holds at most
\* BLOCK_TRANSACTION_CAP transactions, the coinbase counted.
C27_TemplateSize ==
    LastTemplate => Len(last.res.arg.transactions) <= BLOCK_TRANSACTION_CAP

\* the size that does hold: the cap beside the coinbase
TemplateSizeBesideCoinbase ==
    LastTemplate => Len(last.res.arg.transactions) <= BLOCK_TRANSACTION_CAP + 1

TemplateOverCapSeen ==
    /\ LastTemplate
    /\ Len(last.res.arg.transactions) = BLOCK_TRANSACTION_CAP + 1
    /\ Len(blockchain.mempool) = BLOCK_TRANSACTION_CAP

\* C28 (template selection): the coinbase is the first transaction of a
\* Template, and no mempool transaction left out of it pays a strictly
\* higher fee than a transaction taken into it.
C28_TemplateSelection ==
    LastTemplate =>
        LET txs == last.res.arg.transactions
            taken == {txs[i] : i \in 2..Len(txs)}
            left == {blockchain.mempool[i][2] : i \in DOMAIN blockchain.mempool} \ taken
        IN  /\ txs[1].inputs = <<>>
            /\ \A i \in 2..Len(txs) : txs[i].inputs # <<>>
            /\ \A a \in left : \A b \in taken :
                   AmtLeq(MinerFee(blockchain.utxos, a), MinerFee(blockchain.utxos, b))

\* what does hold: the template takes the mempool from its front, in order
TemplateIsMempoolFront ==
    LastTemplate =>
        LET txs == last.res.arg.transactions
        IN  /\ txs[1].inputs = <<>>
            /\ Len(txs) - 1 = Min2(Len(blockchain.mempool), BLOCK_TRANSACTION_CAP)
            /\ \A i \in 2..Len(txs) : txs[i] = blockchain.mempool[i - 1][2]

TemplateAllTakenSeen ==
    /\ LastTemplate
    /\ Len(blockchain.mempool) = 3
    /\ Len(last.res.arg.transactions) = 4

\* the unmarked outputs of the cache in the order create_transaction meets them
RECURSIVE UnmarkedInOrder(_, _)
UnmarkedInOrder(keys, utxos) ==
    IF keys = <<>> THEN <<>>
    ELSE IF Head(keys) \notin DOMAIN utxos THEN UnmarkedInOrder(Tail(keys), utxos)
    ELSE [i \in 1..Cardinality({j \in DOMAIN utxos[Head(keys)] : ~utxos[Head(keys)][j].marked}) |->
             LET entries == utxos[Head(keys)]
                 j == CHOOSE j \in DOMAIN entries :
                          /\ ~entries[j].marked
                          /\ Cardinality({k \in 1..j : ~entries[k].marked}) = i
             IN  [pubkey |-> Head(keys), utxo |-> entries[j].utxo]]
         \o UnmarkedInOrder(Tail(keys), utxos)

\* the sum of u64 values as a number: [value, overflow]
RECURSIVE U64Sum(_)
U64Sum(values) ==
    IF values = <<>> THEN [value |-> U64(0), overflow |-> FALSE]
    ELSE LET rest == U64Sum(Tail(values))
             sum == U64Add(Head(values), rest.value)
         IN  [value |-> sum.value, overflow |-> rest.overflow \/ sum.overflow]

\* a >= b for sums as numbers
SumGeq(a, b) ==
    \/ a.overflow /\ ~b.overflow
    \/ a.overflow = b.overflow /\ ~U64Less(a.value, b.value)

LastCreated == last.op = "create_transaction" /\ last.res.res = "Ok"

CoinSelection ==
    LET tx == last.res.tx
        amount == last.arg.amount
        fee == calculate_fee(wallet.fee_config, amount)
        needed == U64Sum(<<amount, fee>>)
        unmarked == UnmarkedInOrder(KeyOrder, wallet.utxos)
        n == Len(tx.inputs)
        PrefixSum(m) == U64Sum([i \in 1..m |-> unmarked[i].utxo.value])
        input_sum == PrefixSum(n)
        paid == U64Sum(<<amount, fee>> \o (IF Len(tx.outputs) = 2 THEN <<tx.outputs[2].value>>
                                            ELSE <<>>))
    IN  /\ n <= Len(unmarked)
        /\ \A i \in 1..n : tx.inputs[i] = Input(HashOutput(unmarked[i].utxo), unmarked[i].pubkey)
        /\ SumGeq(input_sum, needed)
        /\ \A m \in 0..(n - 1) : ~SumGeq(PrefixSum(m), needed)
        /\ Len(tx.outputs) \in {1, 2}
        /\ tx.outputs[1].value = amount
        /\ tx.outputs[1].pubkey = last.arg.recipient
        /\ Len(tx.outputs) = 2 <=>
               (SumGeq(input_sum, needed) /\ ~SumGeq(needed, input_sum))
        /\ Len(tx.outputs) = 2 =>
               /\ tx.outputs[2].pubkey = wallet.my_keys[1]
               /\ tx.outputs[2].value # U64(0)
        /\ paid = input_sum

\* C30 (wallet coin selection): when create_transaction succeeds, its inputs
\* are the shortest prefix of the unmarked cached outputs, in iteration
\* order, whose sum reaches amount + fee(amount); the first output pays
\* amount to the recipient; a second output of input_sum - amount - fee to
\* the wallet's first key is there exactly when that is positive; and
\* sum(inputs) - sum(outputs) = fee.
C30_CoinSelection == LastCreated => CoinSelection

\* the same for the calls in which amount + fee stays within a u64
CoinSelectionWithinU64 ==
    (LastCreated /\ ~U64Add(last.arg.amount,
                            calculate_fee(wallet.fee_config, last.arg.amount)).overflow)
        => CoinSelection

\* a transaction over both keys, past a marked output, with change
SelectionWithChangeSeen ==
    /\ LastCreated
    /\ Len(last.res.tx.inputs) = 2
    /\ Len(last.res.tx.outputs) = 2
    /\ wallet.my_keys = <<"bob", "alice">>
    /\ last.res.tx.inputs[2].signature.signer = "bob"
    /\ \E j \in DOMAIN wallet.utxos["alice"] : wallet.utxos["alice"][j].marked

\* amount + fee wraps and the call returns a transaction
WrappedTotalSeen ==
    /\ LastCreated
    /\ last.arg.amount = U64_MAX
    /\ last.res.tx.inputs = <<>>

\* the unmarked outputs of the cache are worth less than amount + fee
FundsShort ==
    LET unmarked == UnmarkedInOrder(KeyOrder, wallet.utxos)
        fee == calculate_fee(wallet.fee_config, last.arg.amount)
    IN  ~SumGeq(U64Sum([i \in DOMAIN unmarked |-> unmarked[i].utxo.value]),
                U64Sum(<<last.arg.amount, fee>>))

\* C31 (wallet insufficient funds): create_transaction fails with
\* "Insufficient funds" if and only if the unmarked cached outputs sum to
\* less than amount + fee(amount).
C31_InsufficientFunds ==
    last.op = "create_transaction" => (last.res.res = "Insufficient funds" <=> FundsShort)

\* the same for the calls in which amount + fee stays within a u64
InsufficientFundsWithinU64 ==
    (/\ last.op = "create_transaction"
     /\ ~U64Add(last.arg.amount, calculate_fee(wallet.fee_config, last.arg.amount)).overflow)
        => (last.res.res = "Insufficient funds" <=> FundsShort)

OneThousandCached ==
    /\ last.op = "create_transaction"
    /\ wallet.fee_config = [fee_type |-> "Fixed", value |-> 100]
    /\ DOMAIN wallet.utxos = {"alice"}
    /\ wallet.utxos["alice"] = <<[marked |-> FALSE, utxo |-> Coin(1000, 14, "alice")]>>

\* the example: one output of 1000, fee 100, amount 1000 fails
ThousandRefusedSeen ==
    /\ OneThousandCached
    /\ last.arg.amount = U64(1000)
    /\ last.res.res = "Insufficient funds"

\* the example: amount 900 gives one input, one output of 900, no change
NineHundredPaidSeen ==
    /\ OneThousandCached
    /\ last.arg.amount = U64(900)
    /\ last.res.res = "Ok"
    /\ Len(last.res.tx.inputs) = 1
    /\ Len(last.res.tx.outputs) = 1
    /\ last.res.tx.outputs[1].value = U64(900)

\* amount + fee passes 2^64 and the call does not report the shortage
ShortageUnreportedSeen ==
    /\ last.op = "create_transaction"
    /\ FundsShort
    /\ last.res.res \in {"Ok", "Panic"}

\* the layer k foldings above the leaves, and its length
RECURSIVE LayerLen(_, _)
LayerLen(n, k) == IF k = 0 THEN n ELSE (LayerLen(n, k - 1) + 1) \div 2

RECURSIVE RuleLayer(_, _)
RuleLayer(txs, k) ==
    IF k = 0 THEN [i \in 1..Len(txs) |-> HashTx(txs[i])]
    ELSE LET below == RuleLayer(txs, k - 1)
         IN  [i \in 1..LayerLen(Len(txs), k) |->
                 HashPair(below[2 * i - 1], below[Min2(2 * i, Len(below))])]

LastMerkle == last.op = "MerkleRoot::calculate"

\* C32 (Merkle root): the root of a non-empty sequence is what is left when
\* the layer of transaction hashes is replaced by the hashes of its
\* consecutive pairs, a last unpaired element paired with itself, until one
\* hash remains: hash(t) for [t], H(H(a),H(b)) for [a,b],
\* H(H(H(a),H(b)), H(H(c),H(c))) for [a,b,c]; equal sequences give equal
\* roots.
C32_MerkleRoot ==
    LastMerkle =>
        LET txs == last.arg
            h == [i \in DOMAIN txs |-> HashTx(txs[i])]
            k == CHOOSE k \in 0..MaxMerkleTxs : LayerLen(Len(txs), k) = 1
                                               /\ \A j \in 0..(k - 1) : LayerLen(Len(txs), j) > 1
        IN  /\ last.res = RuleLayer(txs, k)[1]
            /\ Len(txs) = 1 => last.res = h[1]
            /\ Len(txs) = 2 => last.res = HashPair(h[1], h[2])
            /\ Len(txs) = 3 =>
                   last.res = HashPair(HashPair(h[1], h[2]), HashPair(h[3], h[3]))
            /\ (last2.op = last.op /\ last2.arg = last.arg) => last2.res = last.res

\* three transactions hashed, after the same three hashed before
C32_Witness ==
    /\ LastMerkle
    /\ Len(last.arg) = 3
    /\ last.arg[3] # last.arg[2]
    /\ last2.op = last.op
    /\ last2.arg = last.arg

\* a SubmitTemplate of a mined Template whose snapshot still shows the tip
\* and the utxos of the chain, with a timestamp after the tip's
MinedOnCurrentChain ==
    /\ last.op = "SubmitTemplate"
    /\ matches_target(last.arg.header, last.arg.header.target)
    /\ last.arg.header.prev_block_hash = TipHash(last.pre.bc)
    /\ last.pre.snapshot.arg.prev_block_hash = TipHash(last.pre.bc)
    /\ last.pre.snapshot.arg.utxos = last.pre.bc.utxos
    /\ last.arg.header.timestamp > LastStamp(last.pre.bc)

TemplateAppended ==
    /\ last.res = "Ok"
    /\ blockchain.blocks = Append(last.pre.bc.blocks, last.arg)

\* C33 (mined template is accepted): a Template received for FetchTemplate,
\* mined and submitted while the tip and the utxos are those it was built
\* on, with a timestamp after the tip's, is accepted by add_block and
\* appended.
C33_MinedTemplateAccepted == MinedOnCurrentChain => TemplateAppended

\* every input of the submitted block is signed by the key of its output
AllInputsSigned ==
    \A i \in DOMAIN last.arg.transactions : \A j \in DOMAIN last.arg.transactions[i].inputs :
        LET input == last.arg.transactions[i].inputs[j]
            h == input.prev_transaction_output_hash
        IN  /\ h \in DOMAIN last.pre.bc.utxos
            /\ SignatureVerify(input.signature, h, last.pre.bc.utxos[h].output.pubkey)

\* what does hold: the same when the mempool transactions taken are signed
\* by the owners of what they spend
SignedTemplateAccepted == (MinedOnCurrentChain /\ AllInputsSigned) => TemplateAppended

SignedTemplateAcceptedSeen ==
    /\ MinedOnCurrentChain
    /\ AllInputsSigned
    /\ Len(last.arg.transactions) = 2
    /\ Len(last.pre.bc.blocks) = 2

ForgedTemplateRefusedSeen ==
    /\ MinedOnCurrentChain
    /\ Len(last.arg.transactions) = 2
    /\ last.arg.transactions[2] = TxForged
    /\ last.res = "InvalidTransaction"

LastRejectedAdmission == last.op = "add_to_mempool" /\ last.res = "InvalidTransaction"

\* C34 (a rejected admission changes nothing): when add_to_mempool returns
\* InvalidTransaction, the mempool and every utxos entry, its marked flag
\* included, are as before the call.
C34_RejectedAdmissionChangesNothing ==
    LastRejectedAdmission =>
        /\ blockchain.mempool = last.pre.mempool
        /\ blockchain.utxos = last.pre.utxos

\* what does hold: a rejection for a missing or a repeated input changes
\* nothing, and no rejection touches the blocks, the target or the outputs
RejectedBeforeReplacementChangesNothing ==
    LastRejectedAdmission =>
        /\ (LastMissing \/ LastDuplicate) => blockchain = last.pre
        /\ blockchain.blocks = last.pre.blocks
        /\ blockchain.target = last.pre.target
        /\ DOMAIN blockchain.utxos = DOMAIN last.pre.utxos
        /\ \A h \in DOMAIN blockchain.utxos :
               blockchain.utxos[h].output = last.pre.utxos[h].output

RejectedMissingSeen == LastRejectedAdmission /\ LastMissing /\ last.pre.mempool # <<>>

\* an overspending transaction rejected after it released a reservation
RejectedOverspendUnmarkedSeen ==
    /\ LastRejectedAdmission
    /\ ~LastMissing
    /\ \E h \in DOMAIN blockchain.utxos :
           last.pre.utxos[h].marked /\ ~blockchain.utxos[h].marked
    /\ blockchain.mempool = last.pre.mempool

LastRejectedBlock == last.op = "add_block" /\ last.res \notin {"Ok", "Panic"}

\* C35 (a rejected block changes nothing): when add_block returns an error
\* (InvalidBlock, InvalidMerkleRoot, or an error of verify_transactions),
\* blocks, utxos, mempool and target are as before the call.
C35_RejectedBlockChangesNothing ==
    LastRejectedBlock =>
        /\ blockchain.blocks = last.pre.blocks
        /\ blockchain.utxos = last.pre.utxos
        /\ blockchain.mempool = last.pre.mempool
        /\ blockchain.target = last.pre.target

\* a block refused by verify_transactions on a chain that holds a block
C35_Witness ==
    /\ LastRejectedBlock
    /\ last.why = "verify_transactions"
    /\ last.pre.blocks # <<>>

\* a block refused while the mempool holds a transaction and a reservation
RejectedBlockWithMempoolSeen ==
    /\ LastRejectedBlock
    /\ last.pre.mempool # <<>>
    /\ \E h \in DOMAIN last.pre.utxos : last.pre.utxos[h].marked

LastAppendedOnChain == last.op = "add_block" /\ last.res = "Ok" /\ last.pre.blocks # <<>>

\* C36 (appended blocks meet the chain's difficulty): a block that add_block
\* appends to a non-empty chain carries a header.target no greater than the
\* chain's target at the moment of the append.
C36_AppendedTargetMeetsChain ==
    LastAppendedOnChain => last.arg.header.target <= last.pre.target

\* what does hold: the header's hash meets the target the header itself names
AppendedMeetsOwnTarget ==
    LastAppendedOnChain => matches_target(last.arg.header, last.arg.header.target)

\* a block naming the easiest target appended to a chain at MIN_TARGET
EasierTargetAppendedSeen ==
    /\ LastAppendedOnChain
    /\ last.arg.header.target = U256Max
    /\ last.pre.target = MIN_TARGET
    /\ ~matches_target(last.arg.header, last.pre.target)

ReservedByMempool(h) ==
    \E k \in DOMAIN blockchain.mempool : h \in SeqRange(InputHashes(blockchain.mempool[k][2]))

SpentOnChain(h) ==
    \E i \in DOMAIN blockchain.blocks : \E j \in DOMAIN blockchain.blocks[i].transactions :
        h \in SeqRange(InputHashes(blockchain.blocks[i].transactions[j]))

\* C37 (no orphan reservations): every utxo whose marked flag is true is an
\* input of some transaction in the mempool.
C37_NoOrphanReservations ==
    \A h \in DOMAIN blockchain.utxos : blockchain.utxos[h].marked => ReservedByMempool(h)

\* what does hold: a marked utxo without a mempool transaction is one a block
\* of the chain has spent
OrphansAreSpentOnChain ==
    \A h \in DOMAIN blockchain.utxos :
        blockchain.utxos[h].marked => (ReservedByMempool(h) \/ SpentOnChain(h))

\* an accepted NewBlock took the transaction and left its reservation
OrphanAfterNewBlockSeen ==
    /\ last.op = "NewBlock"
    /\ last.res = "Ok"
    /\ blockchain.mempool = <<>>
    /\ U1 \in DOMAIN blockchain.utxos
    /\ blockchain.utxos[U1].marked

\* the cleanup task released the reservation of a transaction it removed
CleanupReleasedSeen ==
    /\ last.op = "cleanup_mempool"
    /\ blockchain.mempool = <<>>
    /\ now > MAX_MEMPOOL_TRANSACTION_AGE
    /\ \A h \in DOMAIN blockchain.utxos : ~blockchain.utxos[h].marked
    /\ Len(blockchain.blocks) = 1

\* every transaction of the chain, in the order rebuild_utxos replays them
ChainTxs(chain) == Concat([i \in DOMAIN chain |-> chain[i].transactions])

MadeBy(tx) == {HashOutput(tx.outputs[i]) : i \in DOMAIN tx.outputs}

\* the outputs some transaction of a block creates and no input of that block
\* or of a later block refers to
CreatedAndUnspent(chain) ==
    {h \in UNION {MadeBy(ChainTxs(chain)[p]) : p \in DOMAIN ChainTxs(chain)} :
        \E i \in DOMAIN chain :
            /\ \E j \in DOMAIN chain[i].transactions : h \in MadeBy(chain[i].transactions[j])
            /\ \A k \in i..Len(chain) : \A j \in DOMAIN chain[k].transactions :
                   h \notin InputSet(chain[k].transactions[j])}

\* the outputs some transaction creates and no transaction replayed after it
\* refers to
CreatedAndNotSpentAfter(chain) ==
    LET txs == ChainTxs(chain)
    IN  {h \in UNION {MadeBy(txs[p]) : p \in DOMAIN txs} :
            \E p \in DOMAIN txs :
                /\ h \in MadeBy(txs[p])
                /\ \A q \in (p + 1)..Len(txs) : h \notin InputSet(txs[q])}

\* C38: rebuild_utxos is idempotent on chains built by add_block: a second
\* call gives the utxos of the first, and after it every utxos entry is
\* unmarked and the key set is exactly the outputs created by some block
\* transaction and not referenced by an input of the same or a later block.
C38_RebuildIdempotent ==
    last.op = "rebuild_utxos" =>
        /\ rebuild_utxos(blockchain).utxos = blockchain.utxos
        /\ \A h \in DOMAIN blockchain.utxos : ~blockchain.utxos[h].marked
        /\ DOMAIN blockchain.utxos = CreatedAndUnspent(blockchain.blocks)

\* what does hold after rebuild_utxos on these chains: a second call changes
\* nothing, no entry is marked, and the keys are the outputs no transaction
\* replayed after their creation refers to
RebuildKeepsLastCreated ==
    last.op = "rebuild_utxos" =>
        /\ rebuild_utxos(blockchain).utxos = blockchain.utxos
        /\ \A h \in DOMAIN blockchain.utxos : ~blockchain.utxos[h].marked
        /\ DOMAIN blockchain.utxos = CreatedAndNotSpentAfter(blockchain.blocks)

\* rebuild_utxos ran on a chain whose second block spends U2 and pays the
\* same output again: U2 is a key
RenewedOutputKeptSeen ==
    /\ last.op = "rebuild_utxos"
    /\ Len(blockchain.blocks) >= 2
    /\ blockchain.blocks[2].transactions = <<CbReward, TxRenew>>
    /\ U2 \in DOMAIN blockchain.utxos

\* rebuild_utxos ran on a chain whose first block spends U1 before the
\* transaction that creates it: U1 is a key
SpentBeforeCreatedKeptSeen ==
    /\ last.op = "rebuild_utxos"
    /\ blockchain.blocks # <<>>
    /\ blockchain.blocks[1].transactions = <<TxA, TxGenesis>>
    /\ U1 \in DOMAIN blockchain.utxos

\* rebuild_utxos ran on utxos holding a marked entry and left it unmarked
RebuildUnmarkedSeen ==
    /\ last.op = "rebuild_utxos"
    /\ \E h \in DOMAIN last.pre : last.pre[h].marked /\ h \in DOMAIN blockchain.utxos

\* the positions of SpecPeers at which a task awaits a send or a receive
PeerNetworkPcs == {"asking", "sending", "send_list", "receive", "accept"}

\* t is at a call into the peer table that cannot return before the guard
\* another task holds is dropped
WaitsForGuard(t) ==
    \/ pc[t] = "iter" /\ \E n \in DOMAIN NODES : NODES[n] \notin {Free, t}
    \/ pc[t] = "get_mut" /\ NODES[Head(cur[t].rest)] \notin {Free, t}

\* a guard is out, and every worker thread is kept by a handler waiting for
\* a guard: the task holding it is never polled again
PeerTableDeadlock ==
    /\ \E n \in DOMAIN NODES : NODES[n] \in Conns
    /\ ~WorkerFree
    /\ \A t \in Conns : OnWorker(t) => WaitsForGuard(t)

\* C39: peer-table access cannot stall behind a pending send: no task holds
\* a lock on a NODES entry across a network send or receive, so a handler
\* iterating or looking up the peer table never waits for another task's
\* network I/O to complete, and the handlers cannot deadlock on the peer table.
C39_PeerTableNeverStalls ==
    /\ \A n \in DOMAIN NODES :
           NODES[n] # Free => pc[NODES[n]] \notin PeerNetworkPcs
    /\ \A t \in Conns : ~WaitsForGuard(t)
    /\ ~PeerTableDeadlock

\* what does hold: a guard is out only while its holder awaits the send or
\* the receive on that entry's stream, and a handler replying to
\* DiscoverNodes on its own socket holds none
GuardOnlyAcrossOwnSend ==
    \A n \in DOMAIN NODES :
        NODES[n] # Free =>
            /\ pc[NODES[n]] \in {"asking", "sending"}
            /\ Head(cur[NODES[n]].rest) = n

\* a handler answering DiscoverNodes is kept at NODES.iter() by the guard of
\* a handler whose broadcast send is pending
IterWaitsForSendSeen ==
    \E t, u \in Conns :
        /\ cur[t].kind = "DiscoverNodes" /\ WaitsForGuard(t)
        /\ pc[u] = "sending" /\ NODES[Head(cur[u].rest)] = u

\* the handlers are stuck on the peer table for good
PeerTableDeadlockSeen == PeerTableDeadlock /\ ~ENABLED NextPeers

\* main started without a chain file and with a seed, and the seed's chain
\* is empty: it answers AskDifference(0) with Difference(0)
NothingToFetch ==
    /\ syncLeft.chain = <<>>
    /\ \/ pc["main"] = "populate" /\ ~file.exists /\ cur["main"].arg # {}
       \/ NODES # {}

\* C40 (sync with nothing to fetch): started with a non-empty seed list whose
\* peers all answer AskDifference(0) with a Difference that is not positive,
\* startup completes without an error or panic and the node begins serving
\* with an empty chain.
C40_SyncWithNothingToFetch ==
    NothingToFetch =>
        /\ pc["main"] \notin {"exited", "panicked"}
        /\ pc["main"] \in {"listen", "accept"} => blockchain.blocks = <<>>

\* what the code does instead: main gets as far as download_blockchain and
\* no further, and no task is ever spawned
NothingToFetchStopsAtDownload ==
    NothingToFetch =>
        /\ pc["main"] \in {"populate", "find_longest", "download", "panicked"}
        /\ \A c \in Conns : pc[c] = "unspawned"
        /\ blockchain = BlockchainNew

\* main panicked in download_blockchain after every peer reported no blocks
EmptySyncPanicSeen ==
    /\ NothingToFetch
    /\ pc["main"] = "panicked"
    /\ syncLeft.from = "" /\ syncLeft.count = 0
    /\ Len(sent["main"]) = 2

====
